---- MODULE Spec2Model ----
(***************************************************************************)
(* Yut game engine: board graph and traversal, movement rules, game state  *)
(* helpers and the action reducer.                                         *)
(*                                                                         *)
(* Every engine function is pure, so each one is an operator with the      *)
(* source's name.  A function that throws returns an error record          *)
(* [error |-> message]; a caller that gets one passes it on, as an         *)
(* uncaught exception does.                                                *)
(***************************************************************************)
EXTENDS Integers, Sequences, FiniteSets, TLC

VARIABLES
    gs,     \* the GameState held by the caller (useReducer / a test's `state`)
    last,   \* the last engine call: what was called, its inputs, whether it threw
    trav,   \* one call of traverseSteps: its inputs and its result
    moves,  \* successful moves made in the current game
    dispatched  \* actions dispatched to the reducer in the current game

vars == <<gs, last, trav, moves, dispatched>>

(***************************************************************************)
(* Bounds of the model                                                     *)
(***************************************************************************)
\* largest step count a token carries (MO), handed to traverseSteps / executeMove
MaxSteps == 5
\* longest hand the specifications let a caller hold before a throw, and
\* the largest index handed to an action that takes one
MaxHand == 2
\* largest count handed to SET_THROWS_REMAINING
MaxThrows == 2
\* successful moves per game in SpecMove and SpecSpawn
MaxMoves == 4
\* actions dispatched per game in Spec
MaxDispatch == 3

(***************************************************************************)
(* JavaScript values                                                       *)
(***************************************************************************)
Null == "null"
Undefined == "undefined"

Err(msg) == [error |-> msg]
IsError(r) == "error" \in DOMAIN r

\* A value that may be absent (null / undefined) where the present values
\* are no strings: the empty sequence, or the value in a sequence of one.
None == << >>
Some(x) == <<x>>

\* Array.prototype.find: the first element satisfying Test, else undefined
Find(seq, Test(_)) ==
    LET hits == SelectSeq(seq, Test)
    IN  IF Len(hits) = 0 THEN None ELSE Some(hits[1])

\* Array.prototype.includes
Includes(seq, x) == \E i \in DOMAIN seq : seq[i] = x

\* Array.prototype.map
Map(seq, F(_)) == [i \in DOMAIN seq |-> F(seq[i])]

\* Array.prototype.filter((_, i) => i !== index), index counted from 0.
\* JavaScript compares the index with !==, so an index that is no position
\* of the array removes nothing.
RECURSIVE FilterIndexFrom(_, _, _)
FilterIndexFrom(seq, index, k) ==
    IF k > Len(seq) THEN << >>
    ELSE IF k - 1 # index
         THEN <<seq[k]>> \o FilterIndexFrom(seq, index, k + 1)
         ELSE FilterIndexFrom(seq, index, k + 1)

(***************************************************************************)
(* Board graph (engine/board)                                              *)
(***************************************************************************)
BranchOption == {"OUTER", "DIAGONAL_A", "DIAGONAL_B", "TO_O15", "TO_O20"}

\* a branchChoice argument: one of the options, or left out
BranchArg == BranchOption \cup {Undefined}

BOARD_GRAPH ==
    [ O0  |-> [id |-> "O0",  isBranchNode |-> FALSE, next |-> <<"O1">>],
      O1  |-> [id |-> "O1",  isBranchNode |-> FALSE, next |-> <<"O2">>],
      O2  |-> [id |-> "O2",  isBranchNode |-> FALSE, next |-> <<"O3">>],
      O3  |-> [id |-> "O3",  isBranchNode |-> FALSE, next |-> <<"O4">>],
      O4  |-> [id |-> "O4",  isBranchNode |-> FALSE, next |-> <<"O5">>],
      O5  |-> [id |-> "O5",  isBranchNode |-> TRUE,  next |-> <<"O6", "A1">>],
      O6  |-> [id |-> "O6",  isBranchNode |-> FALSE, next |-> <<"O7">>],
      O7  |-> [id |-> "O7",  isBranchNode |-> FALSE, next |-> <<"O8">>],
      O8  |-> [id |-> "O8",  isBranchNode |-> FALSE, next |-> <<"O9">>],
      O9  |-> [id |-> "O9",  isBranchNode |-> FALSE, next |-> <<"O10">>],
      O10 |-> [id |-> "O10", isBranchNode |-> TRUE,  next |-> <<"O11", "B1">>],
      O11 |-> [id |-> "O11", isBranchNode |-> FALSE, next |-> <<"O12">>],
      O12 |-> [id |-> "O12", isBranchNode |-> FALSE, next |-> <<"O13">>],
      O13 |-> [id |-> "O13", isBranchNode |-> FALSE, next |-> <<"O14">>],
      O14 |-> [id |-> "O14", isBranchNode |-> FALSE, next |-> <<"O15">>],
      O15 |-> [id |-> "O15", isBranchNode |-> FALSE, next |-> <<"O16">>],
      O16 |-> [id |-> "O16", isBranchNode |-> FALSE, next |-> <<"O17">>],
      O17 |-> [id |-> "O17", isBranchNode |-> FALSE, next |-> <<"O18">>],
      O18 |-> [id |-> "O18", isBranchNode |-> FALSE, next |-> <<"O19">>],
      O19 |-> [id |-> "O19", isBranchNode |-> FALSE, next |-> <<"O20">>],
      O20 |-> [id |-> "O20", isBranchNode |-> FALSE, next |-> << >>],
      C   |-> [id |-> "C",   isBranchNode |-> TRUE,  next |-> <<"A3", "B3">>],
      A1  |-> [id |-> "A1",  isBranchNode |-> FALSE, next |-> <<"A2">>],
      A2  |-> [id |-> "A2",  isBranchNode |-> FALSE, next |-> <<"C">>],
      A3  |-> [id |-> "A3",  isBranchNode |-> FALSE, next |-> <<"A4">>],
      A4  |-> [id |-> "A4",  isBranchNode |-> FALSE, next |-> <<"O15">>],
      B1  |-> [id |-> "B1",  isBranchNode |-> FALSE, next |-> <<"B2">>],
      B2  |-> [id |-> "B2",  isBranchNode |-> FALSE, next |-> <<"C">>],
      B3  |-> [id |-> "B3",  isBranchNode |-> FALSE, next |-> <<"B4">>],
      B4  |-> [id |-> "B4",  isBranchNode |-> FALSE, next |-> <<"O20">>] ]

NodeIds == DOMAIN BOARD_GRAPH

\* What a lookup by name finds in an object literal that has no such key of
\* its own (BOARD_GRAPH[nodeId], state.specialNodes[nodeId]): for the names
\* below the property inherited from Object.prototype, a function, or
\* Object.prototype itself for __proto__; for any other name undefined.
ObjectPrototype ==
    [name \in {"constructor", "hasOwnProperty", "isPrototypeOf",
               "propertyIsEnumerable", "toLocaleString", "toString",
               "valueOf", "__defineGetter__", "__defineSetter__",
               "__lookupGetter__", "__lookupSetter__", "__proto__"} |->
        IF name = "__proto__" THEN "Object.prototype"
        ELSE IF name = "constructor" THEN "function Object"
        ELSE "function " \o name]

getBranchOptions(nodeId) ==
    IF nodeId = "O5" THEN <<"OUTER", "DIAGONAL_A">>
    ELSE IF nodeId = "O10" THEN <<"OUTER", "DIAGONAL_B">>
    ELSE IF nodeId = "C" THEN <<"TO_O15", "TO_O20">>
    ELSE << >>

\* nextOfNode that leaves C towards O20 unless told otherwise
nextOfNode_centerToO20(node, branchChoice) ==
    IF Len(node.next) = 0 THEN Null
    ELSE IF ~node.isBranchNode THEN node.next[1]
    ELSE IF node.id = "O5"
         THEN (IF branchChoice = "DIAGONAL_A" THEN "A1" ELSE "O6")
    ELSE IF node.id = "O10"
         THEN (IF branchChoice = "DIAGONAL_B" THEN "B1" ELSE "O11")
    ELSE IF node.id = "C"
         THEN (IF branchChoice = "TO_O15" THEN "A3" ELSE "B3")
    ELSE node.next[1]

\* getNextNode once the node is looked up
nextOfNode(node, branchChoice) ==
    IF Len(node.next) = 0 THEN Null
    ELSE IF ~node.isBranchNode THEN node.next[1]
    ELSE IF node.id = "O5"
         THEN (IF branchChoice = "DIAGONAL_A" THEN "A1" ELSE "O6")
    ELSE IF node.id = "O10"
         THEN (IF branchChoice = "DIAGONAL_B" THEN "B1" ELSE "O11")
    ELSE IF node.id = "C"
         THEN (IF branchChoice = "TO_O20" THEN "B3" ELSE "A3")
    ELSE node.next[1]

\* const node = BOARD_GRAPH[nodeId]; if (!node) return null;
\* An inherited property is truthy and has no next: node.next.length throws.
getNextNode(nodeId, branchChoice) ==
    IF nodeId \in NodeIds THEN nextOfNode(BOARD_GRAPH[nodeId], branchChoice)
    ELSE IF nodeId \in DOMAIN ObjectPrototype
         THEN Err("TypeError: Cannot read properties of undefined (reading 'length')")
    ELSE Null

\* traverseHop with the firstStep test forgotten: the choice is used at every hop
traverseHop_everyHop(current, firstStep, branchChoice) ==
    getNextNode(current, branchChoice)

\* the hop of traverseSteps' loop: the choice is handed to getNextNode on the
\* first pass only
traverseHop(current, firstStep, branchChoice) ==
    IF firstStep THEN getNextNode(current, branchChoice)
    ELSE getNextNode(current, Undefined)

\* the while loop of traverseSteps; what getNextNode throws leaves the loop
\* and the function (getNextNode throws for the inherited names only)
RECURSIVE traverseLoop(_, _, _, _)
traverseLoop(current, remainingSteps, firstStep, branchChoice) ==
    IF ~(remainingSteps > 0) THEN current
    ELSE IF current = "O20" THEN "FINISHED"
    ELSE IF current \notin NodeIds /\ current \in DOMAIN ObjectPrototype
         THEN traverseHop(current, firstStep, branchChoice)
    ELSE LET next == traverseHop(current, firstStep, branchChoice)
         IN  IF next = Null THEN "FINISHED"
             ELSE traverseLoop(next, remainingSteps - 1, FALSE, branchChoice)

\* traverseSteps with the overshoot rule off by one: landing on O20 finishes
traverseSteps_finishOnLanding(startNode, steps, branchChoice) ==
    LET landed == IF steps <= 0 THEN startNode
                  ELSE traverseLoop(startNode, steps, TRUE, branchChoice)
    IN  IF landed = "O20" THEN "FINISHED" ELSE landed

traverseSteps(startNode, steps, branchChoice) ==
    IF steps <= 0 THEN startNode
    ELSE traverseLoop(startNode, steps, TRUE, branchChoice)

isBranchNode(nodeId) ==
    IF nodeId \in DOMAIN BOARD_GRAPH THEN BOARD_GRAPH[nodeId].isBranchNode
    ELSE FALSE

(***************************************************************************)
(* Seeds (engine/state/seed).  A string is a sequence of characters.       *)
(***************************************************************************)
\* A character is written as itself when it is printable ASCII, as its
\* escape for tab, line feed, carriage return and form feed, and as the name
\* of its code point, "U+2003", otherwise.
\* The characters String.prototype.trim strips are ECMAScript's WhiteSpace
\* (tab, U+000B, form feed, U+FEFF and the space separators of Unicode:
\* space, U+00A0, U+1680, U+2000 to U+200A, U+202F, U+205F, U+3000) and
\* LineTerminator (line feed, carriage return, U+2028, U+2029).
Whitespace ==
    {" ", "\t", "\n", "\r", "\f", "U+000B", "U+00A0", "U+1680",
     "U+2000", "U+2001", "U+2002", "U+2003", "U+2004", "U+2005", "U+2006",
     "U+2007", "U+2008", "U+2009", "U+200A", "U+2028", "U+2029", "U+202F",
     "U+205F", "U+3000", "U+FEFF"}

RECURSIVE TrimStart(_)
TrimStart(str) ==
    IF Len(str) > 0 /\ str[1] \in Whitespace THEN TrimStart(Tail(str)) ELSE str

RECURSIVE TrimEnd(_)
TrimEnd(str) ==
    IF Len(str) > 0 /\ str[Len(str)] \in Whitespace
    THEN TrimEnd(SubSeq(str, 1, Len(str) - 1))
    ELSE str

\* String.prototype.trim
Trim(str) == TrimEnd(TrimStart(str))

\* What generateRandomSeed(10) can return: strings of 10 characters of its
\* alphabet, one per Math.random() draw; the model draws from these.
RandomSeeds ==
    { <<"A", "b", "3", "d", "E", "f", "7", "h", "I", "j">>,
      <<"z", "Y", "x", "0", "w", "V", "9", "u", "T", "s">> }

\* normalizeSeed; generated is the string generateRandomSeed(10) returns
\* when it is called
normalizeSeed(seed, generated) ==
    LET trimmed == Trim(seed)
    IN  IF Len(trimmed) > 0 THEN trimmed ELSE generated

\* What generateRandomSeed() of engine/rng/seeded can return: strings of 6
\* characters of its alphabet, lower-case letters and digits
SeededRandomSeeds ==
    { <<"a", "b", "3", "d", "e", "f">>, <<"z", "9", "x", "0", "w", "v">> }

\* new SeededRandom(seed): this.seed is normalizeSeed(seed) of
\* engine/rng/seeded, which trims like the one above and generates with its
\* own generateRandomSeed; generated is what that returns when it is called.
\* The private state, the hash of this.seed, is read by next() only.
SeededRandom(seed, generated) == [seed |-> normalizeSeed(seed, generated)]

\* SeededRandom.getSeed
getSeed(seededRandom) == seededRandom.seed

(***************************************************************************)
(* Game state (engine/state)                                               *)
(***************************************************************************)
GamePhase == {"THROW", "PLAY", "REWARD", "GAME_OVER"}

YutResult == {"DO", "GAE", "GEOL", "YUT", "MO"}

\* the tokens a throw produces (mapBackCountToResult)
HandTokens ==
    { [result |-> "MO",   steps |-> 5],
      [result |-> "DO",   steps |-> 1],
      [result |-> "GAE",  steps |-> 2],
      [result |-> "GEOL", steps |-> 3],
      [result |-> "YUT",  steps |-> 4] }

\* backProbability in hundredths
BASIC_STICK == [id |-> "basic", backProbability |-> 50]

\* the empty mapping {} that `nodes ?? {}` gives when no special nodes are passed
NoSpecialNodes == [n \in {} |-> "NORMAL"]

\* initializeGameState(seed, specialNodes); a call that passes the special
\* nodes as first argument is the call with seed '' and those nodes, and
\* nodes is what `nodes ?? {}` evaluates to (NoSpecialNodes when left out).
\* generated is what generateRandomSeed returns if normalizeSeed calls it.
initializeGameState(seed, nodes, generated) ==
    [ phase |-> "THROW",
      turn |-> 1,
      seed |-> normalizeSeed(seed, generated),
      throwsRemaining |-> 1,
      hand |-> << >>,
      pieces |-> << [id |-> 0, state |-> "HOME", position |-> Null],
                    [id |-> 1, state |-> "HOME", position |-> Null],
                    [id |-> 2, state |-> "HOME", position |-> Null],
                    [id |-> 3, state |-> "HOME", position |-> Null] >>,
      stacks |-> << >>,
      artifacts |-> << >>,
      stickInventory |-> <<BASIC_STICK, BASIC_STICK, BASIC_STICK, BASIC_STICK>>,
      specialNodes |-> nodes,
      selectedNodeId |-> Undefined,
      selectedTokenIndex |-> None,
      pendingReward |-> None,
      pendingStickOffer |-> None ]

getHomePieces(state) == SelectSeq(state.pieces, LAMBDA p : p.state = "HOME")

getFinishedCount(state) ==
    Len(SelectSeq(state.pieces, LAMBDA p : p.state = "FINISHED"))

isGameOver(state) == getFinishedCount(state) = 4

findStackAtPosition(state, position) ==
    Find(state.stacks, LAMBDA s : s.position = position)

\* mergedStackOf with the two piece lists in the wrong order
mergedStackOf_arrivingFirst(stack1, stack2) ==
    [stack1 EXCEPT !.pieceIds = stack2.pieceIds \o stack1.pieceIds]

\* the stack merged from stack1 and stack2: stack1 with stack2's pieces added
mergedStackOf(stack1, stack2) ==
    [stack1 EXCEPT !.pieceIds = stack1.pieceIds \o stack2.pieceIds]

\* mergeStacks with the filter that drops stack2 forgotten
mergeStacks_keepsBoth(state, stackId1, stackId2) ==
    LET stack1 == Find(state.stacks, LAMBDA s : s.id = stackId1)
        stack2 == Find(state.stacks, LAMBDA s : s.id = stackId2)
    IN  IF stack1 = None \/ stack2 = None
        THEN Err("Cannot merge: stack not found")
        ELSE [state EXCEPT !.stacks =
                 Map(state.stacks,
                     LAMBDA s : IF s.id = stackId1
                                THEN mergedStackOf(stack1[1], stack2[1]) ELSE s)]

mergeStacks(state, stackId1, stackId2) ==
    LET stack1 == Find(state.stacks, LAMBDA s : s.id = stackId1)
        stack2 == Find(state.stacks, LAMBDA s : s.id = stackId2)
    IN  IF stack1 = None \/ stack2 = None
        THEN Err("Cannot merge: stack not found")
        ELSE IF stack1[1].position # stack2[1].position
        THEN Err("Cannot merge: stacks not at same position")
        ELSE LET mergedStack == mergedStackOf(stack1[1], stack2[1])
             IN  [state EXCEPT !.stacks =
                     Map(SelectSeq(state.stacks, LAMBDA s : s.id # stackId2),
                         LAMBDA s : IF s.id = stackId1 THEN mergedStack ELSE s)]

\* The id `stack-${Date.now()}-${Math.random()}` of a new stack: a string no
\* stack of this game has carried.  At most four stacks are ever created in
\* a game, one per piece leaving HOME, so the k-th created stack is named
\* after k.
StackIdNames == <<"stack-1", "stack-2", "stack-3", "stack-4">>

newStackIdOf(state) == StackIdNames[4 - Len(getHomePieces(state)) + 1]

\* spawnPieceFromHome that takes the last HOME piece
spawnPieceFromHome_lastHome(state, finalPosition) ==
    LET homePieces == getHomePieces(state)
    IN  IF Len(homePieces) = 0 THEN Err("No pieces at HOME to spawn")
        ELSE LET pieceToSpawn == homePieces[Len(homePieces)]
             IN  [state EXCEPT
                     !.pieces = Map(state.pieces,
                                    LAMBDA p : IF p.id = pieceToSpawn.id
                                               THEN [p EXCEPT
                                                       !.state = "ON_BOARD",
                                                       !.position = finalPosition]
                                               ELSE p),
                     !.stacks = Append(state.stacks,
                                       [id |-> newStackIdOf(state),
                                        pieceIds |-> <<pieceToSpawn.id>>,
                                        position |-> finalPosition])]

spawnPieceFromHome(state, finalPosition) ==
    LET homePieces == getHomePieces(state)
    IN  IF Len(homePieces) = 0 THEN Err("No pieces at HOME to spawn")
        ELSE LET pieceToSpawn == homePieces[1]
                 newStackId == newStackIdOf(state)
                 newStack == [id |-> newStackId,
                              pieceIds |-> <<pieceToSpawn.id>>,
                              position |-> finalPosition]
                 updatedPieces ==
                     Map(state.pieces,
                         LAMBDA p : IF p.id = pieceToSpawn.id
                                    THEN [p EXCEPT !.state = "ON_BOARD",
                                                   !.position = finalPosition]
                                    ELSE p)
             IN  [state EXCEPT !.pieces = updatedPieces,
                               !.stacks = Append(state.stacks, newStack)]

\* moveStack that takes only the first piece of the stack along
moveStack_firstPieceOnly(state, stackId, newPosition) ==
    LET found == Find(state.stacks, LAMBDA s : s.id = stackId)
    IN  IF found = None THEN Err("Stack not found")
        ELSE [state EXCEPT
                 !.stacks = Map(state.stacks,
                                LAMBDA s : IF s.id = stackId
                                           THEN [s EXCEPT
                                                   !.position = newPosition,
                                                   !.pieceIds = <<Head(s.pieceIds)>>]
                                           ELSE s),
                 !.pieces = Map(state.pieces,
                                LAMBDA p : IF p.id = Head(found[1].pieceIds)
                                           THEN [p EXCEPT !.position = newPosition]
                                           ELSE p)]

moveStack(state, stackId, newPosition) ==
    LET found == Find(state.stacks, LAMBDA s : s.id = stackId)
    IN  IF found = None THEN Err("Stack not found")
        ELSE LET stack == found[1]
                 updatedStack == [stack EXCEPT !.position = newPosition]
                 updatedPieces ==
                     Map(state.pieces,
                         LAMBDA p : IF Includes(stack.pieceIds, p.id)
                                    THEN [p EXCEPT !.position = newPosition]
                                    ELSE p)
             IN  [state EXCEPT
                     !.stacks = Map(state.stacks,
                                    LAMBDA s : IF s.id = stackId
                                               THEN updatedStack ELSE s),
                     !.pieces = updatedPieces]

\* finishStack that marks the pieces FINISHED but leaves their position set
finishStack_keepsPosition(state, stackId) ==
    LET found == Find(state.stacks, LAMBDA s : s.id = stackId)
    IN  IF found = None THEN Err("Stack not found")
        ELSE [state EXCEPT
                 !.stacks = SelectSeq(state.stacks, LAMBDA s : s.id # stackId),
                 !.pieces = Map(state.pieces,
                                LAMBDA p : IF Includes(found[1].pieceIds, p.id)
                                           THEN [p EXCEPT !.state = "FINISHED"]
                                           ELSE p)]

\* finishStack that marks the pieces FINISHED but leaves the stack listed
finishStack_keepsStack(state, stackId) ==
    LET found == Find(state.stacks, LAMBDA s : s.id = stackId)
    IN  IF found = None THEN Err("Stack not found")
        ELSE [state EXCEPT
                 !.pieces = Map(state.pieces,
                                LAMBDA p : IF Includes(found[1].pieceIds, p.id)
                                           THEN [p EXCEPT !.state = "FINISHED",
                                                          !.position = Null]
                                           ELSE p)]

finishStack(state, stackId) ==
    LET found == Find(state.stacks, LAMBDA s : s.id = stackId)
    IN  IF found = None THEN Err("Stack not found")
        ELSE LET stack == found[1]
                 updatedPieces ==
                     Map(state.pieces,
                         LAMBDA p : IF Includes(stack.pieceIds, p.id)
                                    THEN [p EXCEPT !.state = "FINISHED",
                                                   !.position = Null]
                                    ELSE p)
             IN  [state EXCEPT
                     !.stacks = SelectSeq(state.stacks,
                                          LAMBDA s : s.id # stackId),
                     !.pieces = updatedPieces]

(***************************************************************************)
(* Phase transitions, rewards and the stick inventory (engine/state)       *)
(***************************************************************************)
\* sticks are their id and backProbability in hundredths, artifacts their
\* id; names and descriptions are texts no function of the engine reads
\* transitionToPlay without the phase check
transitionToPlay_fromAnyPhase(state) == [state EXCEPT !.phase = "PLAY"]

transitionToPlay(state) ==
    IF state.phase # "THROW"
    THEN Err("Can only transition to PLAY from THROW phase")
    ELSE [state EXCEPT !.phase = "PLAY"]

transitionToReward(state, stackSize, candidates) ==
    [state EXCEPT !.phase = "REWARD",
                  !.pendingReward = Some([stackSize |-> stackSize,
                                          candidates |-> candidates])]

\* the end of completeReward, on the state with the artifact added
resolveAfterReward(updatedState) ==
    IF isGameOver(updatedState) THEN [updatedState EXCEPT !.phase = "GAME_OVER"]
    ELSE IF Len(updatedState.hand) = 0
         THEN [updatedState EXCEPT !.phase = "THROW",
                                   !.turn = updatedState.turn + 1,
                                   !.throwsRemaining = 1]
    ELSE [updatedState EXCEPT !.phase = "PLAY"]

\* completeReward that leaves the pending reward in place
completeReward_keepsPending(state, selectedArtifact) ==
    IF state.phase # "REWARD" THEN Err("Not in REWARD phase")
    ELSE resolveAfterReward(
             [state EXCEPT !.artifacts = Append(state.artifacts, selectedArtifact)])

completeReward(state, selectedArtifact) ==
    IF state.phase # "REWARD" THEN Err("Not in REWARD phase")
    ELSE resolveAfterReward(
             [state EXCEPT !.artifacts = Append(state.artifacts, selectedArtifact),
                           !.pendingReward = None])

advanceTurn(state) ==
    IF Len(state.hand) > 0 THEN Err("Cannot advance turn: hand is not empty")
    ELSE [state EXCEPT !.phase = "THROW",
                       !.turn = state.turn + 1,
                       !.throwsRemaining = 1]

\* offerStick that replaces a pending offer instead of throwing
offerStick_overwrites(state, stick) ==
    [state EXCEPT !.pendingStickOffer = Some([offeredStick |-> stick])]

offerStick(state, stick) ==
    IF state.pendingStickOffer # None
    THEN Err("Cannot offer stick: pending offer already exists")
    ELSE [state EXCEPT !.pendingStickOffer = Some([offeredStick |-> stick])]

\* replaceStickInInventory that accepts slot 4
replaceStickInInventory_slotFour(state, slotIndex) ==
    IF state.pendingStickOffer = None
    THEN Err("Cannot replace stick: no pending offer")
    ELSE IF slotIndex < 0 \/ slotIndex > 4
    THEN Err("Invalid slot index: must be 0-3")
    ELSE [state EXCEPT
             !.stickInventory =
                 [i \in 1..(IF slotIndex = 4 THEN 5 ELSE 4) |->
                     IF i = slotIndex + 1
                     THEN state.pendingStickOffer[1].offeredStick
                     ELSE state.stickInventory[i]],
             !.pendingStickOffer = None]

\* slotIndex is an integer
replaceStickInInventory(state, slotIndex) ==
    IF state.pendingStickOffer = None
    THEN Err("Cannot replace stick: no pending offer")
    ELSE IF slotIndex < 0 \/ slotIndex > 3
    THEN Err("Invalid slot index: must be 0-3")
    ELSE [state EXCEPT
             !.stickInventory[slotIndex + 1] =
                 state.pendingStickOffer[1].offeredStick,
             !.pendingStickOffer = None]

discardStickOffer(state) ==
    IF state.pendingStickOffer = None
    THEN Err("Cannot discard stick: no pending offer")
    ELSE [state EXCEPT !.pendingStickOffer = None]

updateSpecialNodes(state, newSpecialNodes) ==
    [state EXCEPT !.specialNodes = newSpecialNodes]

(***************************************************************************)
(* Random draws.  rng() returns a number of [0, 1); a draw d stands for    *)
(* the number d / DrawScale, and an rng is the sequence of its draws,      *)
(* repeated when it runs out (a mock rng of the tests, or a seeded one).   *)
(***************************************************************************)
DrawScale == 4

MaxCycle == 2

Draws == 0..(DrawScale - 1)

DrawCycles == UNION {[1..n -> Draws] : n \in 1..MaxCycle}

\* what the k-th call of rng() returns, k counted from 0
drawAt(rng, k) == rng[(k % Len(rng)) + 1]

\* Math.floor(rng() * n) for the draw d
floorTimes(d, n) == (d * n) \div DrawScale

\* [shuffled[i], shuffled[j]] = [shuffled[j], shuffled[i]], i and j from 0
swapped(shuffled, i, j) ==
    [shuffled EXCEPT ![i + 1] = shuffled[j + 1], ![j + 1] = shuffled[i + 1]]

\* the Fisher-Yates loop from index i down to 1, the k-th draw coming next
RECURSIVE shuffleLoop(_, _, _, _)
shuffleLoop(shuffled, i, rng, k) ==
    IF i <= 0 THEN shuffled
    ELSE shuffleLoop(swapped(shuffled, i, floorTimes(drawAt(rng, k), i + 1)),
                     i - 1, rng, k + 1)

fisherYates(list, rng) == shuffleLoop(list, Len(list) - 1, rng, 0)

\* Array.prototype.slice(0, count)
sliceTo(list, count) == SubSeq(list, 1, IF count < Len(list) THEN count ELSE Len(list))

(***************************************************************************)
(* Sticks (engine/content/sticks)                                          *)
(***************************************************************************)
STICK_POOL ==
    << [id |-> "lucky-charm",     backProbability |-> 45],
       [id |-> "balanced-master", backProbability |-> 50],
       [id |-> "moon-blessed",    backProbability |-> 35],
       [id |-> "steady-walker",   backProbability |-> 55],
       [id |-> "risky-gambler",   backProbability |-> 40],
       [id |-> "careful-step",    backProbability |-> 60],
       [id |-> "wind-rider",      backProbability |-> 42],
       [id |-> "earth-bound",     backProbability |-> 58],
       [id |-> "star-chaser",     backProbability |-> 38],
       [id |-> "ancient-wisdom",  backProbability |-> 52] >>

drawRandomStick(rng) ==
    STICK_POOL[floorTimes(drawAt(rng, 0), Len(STICK_POOL)) + 1]

(***************************************************************************)
(* Throws (engine/rng): the 4-stick sampling model.  A backProbability is  *)
(* in hundredths, a draw d stands for d / DrawScale, and k counts the      *)
(* calls already made on rng.  A function that calls rng returns its value *)
(* together with the number of calls made on rng when it returns.          *)
(***************************************************************************)
SticksPerThrow == 4

\* sampleStick with <= in place of <
sampleStick_atOrBelow(stick, draw) ==
    IF draw * 100 <= stick.backProbability * DrawScale THEN "Back" ELSE "Front"

\* rng() < stick.backProbability ? 'Back' : 'Front'
sampleStick(stick, draw) ==
    IF draw * 100 < stick.backProbability * DrawScale THEN "Back" ELSE "Front"

\* for (const stick of sticks), from the i-th stick on (i from 1)
RECURSIVE sampleLoop(_, _, _, _, _)
sampleLoop(sticks, i, rng, k, backCount) ==
    IF i > Len(sticks) THEN [value |-> backCount, calls |-> k]
    ELSE sampleLoop(sticks, i + 1, rng, k + 1,
                    IF sampleStick(sticks[i], drawAt(rng, k)) = "Back"
                    THEN backCount + 1 ELSE backCount)

sample4Sticks(sticks, rng, k) ==
    IF Len(sticks) # SticksPerThrow THEN Err("Must provide exactly 4 sticks")
    ELSE sampleLoop(sticks, 1, rng, k, 0)

mapBackCountToResult(backCount) ==
    CASE backCount = 0 -> [result |-> "MO", steps |-> 5]
      [] backCount = 1 -> [result |-> "DO", steps |-> 1]
      [] backCount = 2 -> [result |-> "GAE", steps |-> 2]
      [] backCount = 3 -> [result |-> "GEOL", steps |-> 3]
      [] backCount = 4 -> [result |-> "YUT", steps |-> 4]
      [] OTHER -> Err("Invalid backCount: " \o ToString(backCount))

\* mapBackCountToResult(sample4Sticks(sticks, rng))
throwYutMapped(sampled) ==
    IF IsError(sampled) THEN sampled
    ELSE IF IsError(mapBackCountToResult(sampled.value))
         THEN mapBackCountToResult(sampled.value)
    ELSE [value |-> mapBackCountToResult(sampled.value),
          calls |-> sampled.calls]

throwYut(sticks, rng, k) == throwYutMapped(sample4Sticks(sticks, rng, k))

(***************************************************************************)
(* Rewards (engine/rewards)                                                *)
(***************************************************************************)
\* calculateRewardChoices without the floor of 1
calculateRewardChoices_noFloor(stackSize) == 4 - stackSize

\* Math.max(1, 4 - stackSize)
calculateRewardChoices(stackSize) ==
    IF 4 - stackSize > 1 THEN 4 - stackSize ELSE 1

ARTIFACT_POOL ==
    << [id |-> "artifact-1"], [id |-> "artifact-2"], [id |-> "artifact-3"],
       [id |-> "artifact-4"], [id |-> "artifact-5"], [id |-> "artifact-6"],
       [id |-> "artifact-7"], [id |-> "artifact-8"], [id |-> "artifact-9"],
       [id |-> "artifact-10"] >>

\* generateArtifactCandidates that slices one artifact more
generateArtifactCandidates_oneMore(count, rng) ==
    IF count <= 0 THEN << >>
    ELSE sliceTo(fisherYates(ARTIFACT_POOL, rng),
                 IF count > Len(ARTIFACT_POOL) THEN Len(ARTIFACT_POOL)
                 ELSE count + 1)

generateArtifactCandidates(count, rng) ==
    IF count <= 0 THEN << >>
    ELSE sliceTo(fisherYates(ARTIFACT_POOL, rng),
                 IF count > Len(ARTIFACT_POOL) THEN Len(ARTIFACT_POOL) ELSE count)

(***************************************************************************)
(* Special nodes (engine/board) and node events (engine/events)            *)
(***************************************************************************)
\* Object.keys(BOARD_GRAPH), in the order the nodes are written
BoardKeys ==
    << "O0", "O1", "O2", "O3", "O4", "O5", "O6", "O7", "O8", "O9", "O10",
       "O11", "O12", "O13", "O14", "O15", "O16", "O17", "O18", "O19", "O20",
       "C", "A1", "A2", "A3", "A4", "B1", "B2", "B3", "B4" >>

DefaultExcluded == <<"O0", "O5", "O10", "C", "O20">>

DEFAULT_SPECIAL_NODE_CONFIG ==
    [stickCount |-> 5, refreshCount |-> 2, excludedNodeIds |-> DefaultExcluded]

getEligibleNodes(excludedNodeIds) ==
    SelectSeq(BoardKeys, LAMBDA nodeId : ~Includes(excludedNodeIds, nodeId))

\* the nodes of a slice of the shuffled list
nodesOf(slice) == {slice[i] : i \in DOMAIN slice}

\* the mapping after the two assignment loops: the first stickCount nodes
\* of shuffled are STICK, the next refreshCount are REFRESH (a node cannot
\* be in both slices, the shuffled list having no repeats)
assignSpecial(shuffled, config) ==
    LET sticks == nodesOf(SubSeq(shuffled, 1, config.stickCount))
        refreshes == nodesOf(SubSeq(shuffled, config.stickCount + 1,
                                   config.stickCount + config.refreshCount))
    IN  [nodeId \in NodeIds |->
            IF nodeId \in refreshes THEN "REFRESH"
            ELSE IF nodeId \in sticks THEN "STICK"
            ELSE "NORMAL"]

notEnoughNodes(eligible, total) ==
    Err("Not enough eligible nodes (" \o ToString(eligible) \o ") for "
        \o ToString(total) \o " special nodes")

\* createInitialSpecialNodes that shuffles all nodes of the board, the
\* excluded ones too
placeSpecialNodes_ignoresExcluded(eligibleNodes, config, rng) ==
    IF config.stickCount + config.refreshCount > Len(eligibleNodes)
    THEN notEnoughNodes(Len(eligibleNodes),
                        config.stickCount + config.refreshCount)
    ELSE assignSpecial(fisherYates(BoardKeys, rng), config)

\* createInitialSpecialNodes once the eligible nodes are known
placeSpecialNodes(eligibleNodes, config, rng) ==
    IF config.stickCount + config.refreshCount > Len(eligibleNodes)
    THEN notEnoughNodes(Len(eligibleNodes),
                        config.stickCount + config.refreshCount)
    ELSE assignSpecial(fisherYates(eligibleNodes, rng), config)

\* createInitialSpecialNodes that places one STICK node more than asked
createInitialSpecialNodes_oneStickMore(config, rng) ==
    placeSpecialNodes(getEligibleNodes(config.excludedNodeIds),
                      [config EXCEPT !.stickCount = config.stickCount + 1], rng)

createInitialSpecialNodes(config, rng) ==
    placeSpecialNodes(getEligibleNodes(config.excludedNodeIds), config, rng)

\* Object.values(specialNodes).filter((type) => type === wanted).length
countNodes(specialNodes, wanted) ==
    Cardinality({nodeId \in DOMAIN specialNodes : specialNodes[nodeId] = wanted})

\* return state.specialNodes[nodeId] ?? 'NORMAL': ?? replaces null and
\* undefined only, an inherited property is returned as it is
getSpecialNodeType(state, nodeId) ==
    IF nodeId \in DOMAIN state.specialNodes THEN state.specialNodes[nodeId]
    ELSE IF nodeId \in DOMAIN ObjectPrototype THEN ObjectPrototype[nodeId]
    ELSE "NORMAL"

hasSpecialNodeEvent(state, nodeId) ==
    getSpecialNodeType(state, nodeId) \in {"STICK", "REFRESH"}

\* the configuration handleRefreshNodeEvent builds from the current mapping
refreshConfig(state) ==
    [stickCount |-> countNodes(state.specialNodes, "STICK"),
     refreshCount |-> countNodes(state.specialNodes, "REFRESH"),
     excludedNodeIds |-> DefaultExcluded]

\* handleRefreshNodeEvent that keeps the old mapping
refreshedWith_keepsOld(state, newSpecialNodes) ==
    IF IsError(newSpecialNodes) THEN newSpecialNodes ELSE state

refreshedWith(state, newSpecialNodes) ==
    IF IsError(newSpecialNodes) THEN newSpecialNodes
    ELSE updateSpecialNodes(state, newSpecialNodes)

handleRefreshNodeEvent(state, rng) ==
    refreshedWith(state, createInitialSpecialNodes(refreshConfig(state), rng))

handleStickNodeEvent(state, rng) == offerStick(state, drawRandomStick(rng))

handleNodeEvent(state, nodeId, rng) ==
    CASE getSpecialNodeType(state, nodeId) = "STICK" ->
            handleStickNodeEvent(state, rng)
      [] getSpecialNodeType(state, nodeId) = "REFRESH" ->
            handleRefreshNodeEvent(state, rng)
      [] OTHER -> state

shouldTriggerNodeEvent(finalNodeId, isLanding) == isLanding

(***************************************************************************)
(* Movement rules (engine/rules)                                           *)
(***************************************************************************)
HomeTarget == [type |-> "HOME", stackId |-> Undefined]
StackTarget(id) == [type |-> "STACK", stackId |-> id]

\* !target.stackId: the id is left out or is the empty string
stackIdMissing(target) == target.stackId = Undefined \/ target.stackId = ""

\* the state findStackAtPosition looks in: the stacks other than the arriving one
withoutStack(state, stackId) ==
    [state EXCEPT !.stacks = SelectSeq(state.stacks, LAMBDA s : s.id # stackId)]

\* the stack spawnPieceFromHome appended: newState.stacks[length - 1]
spawnedStackId(newState) == newState.stacks[Len(newState.stacks)].id

\* if (existingStack) newState = mergeStacks(newState, existingStack.id, arrived.id)
mergeIfOccupied(newState, existingStack, arrivedId) ==
    IF existingStack # None
    THEN mergeStacks(newState, existingStack[1].id, arrivedId)
    ELSE newState

\* executeMove, HOME branch, finalPos FINISHED: the spawned stack is finished
finishSpawned(newState) ==
    IF IsError(newState) THEN newState
    ELSE finishStack(newState, spawnedStackId(newState))

\* executeMove, HOME branch, finalPos a node: the spawned stack lands on it
landSpawned(newState, finalPos) ==
    IF IsError(newState) THEN newState
    ELSE mergeIfOccupied(
             newState,
             findStackAtPosition(
                 withoutStack(newState, spawnedStackId(newState)), finalPos),
             spawnedStackId(newState))

\* executeMove, HOME branch, once finalPos is computed
executeMoveHomeTo(state, finalPos) ==
    IF finalPos = "FINISHED"
    THEN finishSpawned(spawnPieceFromHome(state, "O20"))
    ELSE landSpawned(spawnPieceFromHome(state, finalPos), finalPos)

\* executeMove, HOME branch
executeMoveHome(state, steps, branchChoice) ==
    executeMoveHomeTo(state, traverseSteps("O0", steps, branchChoice))

\* executeMove, STACK branch, after moveStack: the moved stack lands on finalPos
landMoved(newState, stackId, finalPos) ==
    IF Find(newState.stacks, LAMBDA s : s.id = stackId) = None
    THEN Err("Moved stack not found")
    ELSE mergeIfOccupied(
             newState,
             findStackAtPosition(withoutStack(newState, stackId), finalPos),
             stackId)

\* executeMove, STACK branch, once finalPos is computed
executeMoveStackTo(state, stack, finalPos) ==
    IF finalPos = "FINISHED" THEN finishStack(state, stack.id)
    ELSE landMoved(moveStack(state, stack.id, finalPos), stack.id, finalPos)

\* executeMoveFound with an unknown stack id passed over in silence
executeMoveFound_ignoresUnknown(state, found, steps, branchChoice) ==
    IF found = None THEN state
    ELSE executeMoveStackTo(
             state, found[1],
             traverseSteps(found[1].position, steps, branchChoice))

\* executeMove, STACK branch, once the stack is looked up
executeMoveFound(state, found, steps, branchChoice) ==
    IF found = None THEN Err("Stack not found")
    ELSE executeMoveStackTo(
             state, found[1],
             traverseSteps(found[1].position, steps, branchChoice))

\* executeMove, STACK branch
executeMoveStack(state, target, steps, branchChoice) ==
    IF stackIdMissing(target) THEN Err("Stack ID required for STACK move")
    ELSE executeMoveFound(
             state, Find(state.stacks, LAMBDA s : s.id = target.stackId),
             steps, branchChoice)

\* executeMove that drops a pending stick offer on the way
executeMove_dropsOffer(state, target, steps, branchChoice) ==
    IF target.type = "HOME"
    THEN executeMoveHome([state EXCEPT !.pendingStickOffer = None],
                         steps, branchChoice)
    ELSE IF target.type = "STACK"
         THEN executeMoveStack([state EXCEPT !.pendingStickOffer = None],
                               target, steps, branchChoice)
    ELSE Err("Invalid move target type")

executeMove(state, target, steps, branchChoice) ==
    IF target.type = "HOME" THEN executeMoveHome(state, steps, branchChoice)
    ELSE IF target.type = "STACK"
         THEN executeMoveStack(state, target, steps, branchChoice)
    ELSE Err("Invalid move target type")

\* the local finalPos of executeMove: where the traversal of the move ends
finalPosOf(state, target, steps, branchChoice) ==
    IF target.type = "HOME" THEN traverseSteps("O0", steps, branchChoice)
    ELSE traverseSteps(
             Find(state.stacks, LAMBDA s : s.id = target.stackId)[1].position,
             steps, branchChoice)

\* getValidMoveTargets that offers HOME whether or not a piece is there
getValidMoveTargets_alwaysHome(state) ==
    <<HomeTarget>> \o Map(state.stacks, LAMBDA stack : StackTarget(stack.id))

getValidMoveTargets(state) ==
    (IF Len(getHomePieces(state)) > 0 THEN <<HomeTarget>> ELSE << >>)
    \o Map(state.stacks, LAMBDA stack : StackTarget(stack.id))

\* validateMove's result for a move that needs no branch choice
moveResult(finalPos) ==
    [finalPosition |-> finalPos,
     isFinished |-> finalPos = "FINISHED",
     needsBranchChoice |-> FALSE]

\* validateMove, HOME spawning
validateMoveHome(state, steps) ==
    IF Len(getHomePieces(state)) = 0 THEN Err("No pieces at HOME to spawn")
    ELSE moveResult(traverseSteps("O0", steps, Undefined))

\* validateMove, stack movement, once the stack is looked up
validateMoveFound(found, steps) ==
    IF found = None THEN Err("Stack not found")
    ELSE IF isBranchNode(found[1].position)
    THEN [finalPosition |-> found[1].position,
          isFinished |-> FALSE,
          needsBranchChoice |-> TRUE,
          availableBranches |-> getBranchOptions(found[1].position)]
    ELSE moveResult(traverseSteps(found[1].position, steps, Undefined))

validateMoveStack(state, target, steps) ==
    IF stackIdMissing(target) THEN Err("Stack ID required for STACK move")
    ELSE validateMoveFound(
             Find(state.stacks, LAMBDA s : s.id = target.stackId), steps)

\* validateMove that never asks for a branch choice
validateMove_neverAsks(state, target, steps) ==
    IF target.type = "HOME" THEN validateMoveHome(state, steps)
    ELSE IF target.type = "STACK"
         THEN (IF IsError(validateMoveStack(state, target, steps))
               THEN validateMoveStack(state, target, steps)
               ELSE [validateMoveStack(state, target, steps)
                        EXCEPT !.needsBranchChoice = FALSE])
    ELSE Err("Invalid move target type")

validateMove(state, target, steps) ==
    IF target.type = "HOME" THEN validateMoveHome(state, steps)
    ELSE IF target.type = "STACK" THEN validateMoveStack(state, target, steps)
    ELSE Err("Invalid move target type")

(***************************************************************************)
(* Action reducer (engine/state/reducer)                                   *)
(***************************************************************************)
\* case 'NEW_GAME' that carries the hand over
reduceNewGame_keepsHand(state, action) ==
    [initializeGameState(action.seed, NoSpecialNodes, action.generated)
        EXCEPT !.hand = state.hand]

\* case 'NEW_GAME'.  action.seed is the seed string, empty when the action
\* carries none (action.seed || ''); action.generated is what
\* generateRandomSeed returns if the call needs it.
reduceNewGame(state, action) ==
    initializeGameState(action.seed, NoSpecialNodes, action.generated)

\* case 'END_TURN'
reduceEndTurn(state) ==
    [state EXCEPT !.phase = "THROW",
                  !.turn = state.turn + 1,
                  !.throwsRemaining = 1,
                  !.hand = << >>,
                  !.selectedNodeId = Undefined,
                  !.selectedTokenIndex = None]

\* Math.max(0, n)
maxZero(n) == IF n > 0 THEN n ELSE 0

\* THROW_YUT whose bonus throw comes on top of the throw just used
reduceThrowYut_bonusOnTop(state, action) ==
    [state EXCEPT
        !.hand = Append(state.hand, action.token),
        !.throwsRemaining =
            IF action.token.result \in {"YUT", "MO"}
            THEN state.throwsRemaining + 1
            ELSE maxZero(state.throwsRemaining - 1)]

\* THROW_YUT that lets throwsRemaining fall below 0
reduceThrowYut_noFloor(state, action) ==
    LET newThrowsRemaining == state.throwsRemaining - 1
        grantsBonus == action.token.result = "YUT" \/ action.token.result = "MO"
    IN  [state EXCEPT
            !.hand = Append(state.hand, action.token),
            !.throwsRemaining = IF grantsBonus THEN newThrowsRemaining + 1
                                ELSE newThrowsRemaining]

\* case 'THROW_YUT'
reduceThrowYut(state, action) ==
    LET newHand == Append(state.hand, action.token)
        newThrowsRemaining == maxZero(state.throwsRemaining - 1)
        grantsBonus == action.token.result = "YUT" \/ action.token.result = "MO"
    IN  [state EXCEPT
            !.hand = newHand,
            !.throwsRemaining = IF grantsBonus THEN newThrowsRemaining + 1
                                ELSE newThrowsRemaining]

\* resolveAfterMove that counts a turn also when the game is over
resolveAfterMove_countsTurn(newState) ==
    IF isGameOver(newState)
    THEN [newState EXCEPT !.phase = "GAME_OVER", !.turn = newState.turn + 1]
    ELSE IF Len(newState.hand) = 0
         THEN [newState EXCEPT !.phase = "THROW",
                               !.turn = newState.turn + 1,
                               !.throwsRemaining = 1]
    ELSE newState

\* resolveAfterMove without the check for the end of the game
resolveAfterMove_noGameOver(newState) ==
    IF Len(newState.hand) = 0
    THEN [newState EXCEPT !.phase = "THROW",
                          !.turn = newState.turn + 1,
                          !.throwsRemaining = 1]
    ELSE newState

\* the tail of case 'EXECUTE_MOVE': game over, automatic end of turn, or
\* the state as it is
resolveAfterMove(newState) ==
    IF isGameOver(newState) THEN [newState EXCEPT !.phase = "GAME_OVER"]
    ELSE IF Len(newState.hand) = 0
         THEN [newState EXCEPT !.phase = "THROW",
                               !.turn = newState.turn + 1,
                               !.throwsRemaining = 1]
    ELSE newState

\* consumeToken that always drops the first token of the hand
consumeToken_first(moved, tokenIndex) ==
    IF IsError(moved) THEN moved
    ELSE resolveAfterMove(
             [moved EXCEPT !.hand = FilterIndexFrom(moved.hand, 0, 1),
                           !.selectedTokenIndex = None,
                           !.selectedNodeId = Undefined])

\* case 'EXECUTE_MOVE' after executeMove: an exception of executeMove passes
\* through; else the used token leaves the hand and the selection is cleared
consumeToken(moved, tokenIndex) ==
    IF IsError(moved) THEN moved
    ELSE resolveAfterMove(
             [moved EXCEPT !.hand = FilterIndexFrom(moved.hand, tokenIndex, 1),
                           !.selectedTokenIndex = None,
                           !.selectedNodeId = Undefined])

\* case 'EXECUTE_MOVE'
reduceExecuteMove(state, action) ==
    IF action.tokenIndex < 0 \/ action.tokenIndex >= Len(state.hand)
    THEN Err("Invalid token index")
    ELSE consumeToken(
             executeMove(state, action.target,
                         state.hand[action.tokenIndex + 1].steps,
                         action.branchChoice),
             action.tokenIndex)

gameReducer(state, action) ==
    CASE action.type = "NEW_GAME" -> reduceNewGame(state, action)
      [] action.type = "SET_PHASE" -> [state EXCEPT !.phase = action.phase]
      [] action.type = "INCREMENT_TURN" -> [state EXCEPT !.turn = state.turn + 1]
      [] action.type = "END_TURN" -> reduceEndTurn(state)
      [] action.type = "SET_SELECTED_NODE" ->
            [state EXCEPT !.selectedNodeId = action.nodeId]
      [] action.type = "SET_SELECTED_TOKEN" ->
            [state EXCEPT !.selectedTokenIndex = action.tokenIndex]
      [] action.type = "ADD_HAND_TOKEN" ->
            [state EXCEPT !.hand = Append(state.hand, action.token)]
      [] action.type = "REMOVE_HAND_TOKEN" ->
            [state EXCEPT !.hand = FilterIndexFrom(state.hand, action.index, 1)]
      [] action.type = "SET_THROWS_REMAINING" ->
            [state EXCEPT !.throwsRemaining = action.count]
      [] action.type = "DECREMENT_THROWS_REMAINING" ->
            [state EXCEPT !.throwsRemaining = maxZero(state.throwsRemaining - 1)]
      [] action.type = "INCREMENT_THROWS_REMAINING" ->
            [state EXCEPT !.throwsRemaining = state.throwsRemaining + 1]
      [] action.type = "THROW_YUT" -> reduceThrowYut(state, action)
      [] action.type = "EXECUTE_MOVE" -> reduceExecuteMove(state, action)
      [] OTHER -> state

(***************************************************************************)
(* Specification SpecTraverse: one call of traverseSteps on any start      *)
(* node, any step count 0..MaxSteps and any branch choice.                 *)
(***************************************************************************)
IdleTrav == [start |-> "O0", steps |-> 0, branchChoice |-> Undefined,
             result |-> "idle"]

\* last: the call or the dispatched action, the error it threw ("none" if it
\* returned); for an executeMove call its target and the finalPos the move
\* computed ("none" if it threw first); for THROW_YUT the token thrown and
\* the throwsRemaining the action found
NoTarget == [type |-> "none", stackId |-> Undefined]

NoToken == [result |-> "none", steps |-> 0]

InitLast == [type |-> "init", error |-> "none", target |-> NoTarget,
             finalPos |-> "none", token |-> NoToken, throws |-> 0]

\* a game started with a seed given by the caller, initializeGameState('test')
TestSeed == <<"t", "e", "s", "t">>

SeededGame ==
    initializeGameState(TestSeed, NoSpecialNodes, CHOOSE g \in RandomSeeds : TRUE)

InitTraverse ==
    /\ gs = SeededGame
    /\ last = InitLast
    /\ trav \in [start : NodeIds, steps : 0..MaxSteps, branchChoice : BranchArg,
                 result : {"pending"}]
    /\ moves = 0
    /\ dispatched = 0

TraverseCall ==
    /\ trav.result = "pending"
    /\ trav' = [trav EXCEPT
                   !.result = traverseSteps(trav.start, trav.steps, trav.branchChoice)]
    /\ UNCHANGED <<gs, last, moves, dispatched>>

NextTraverse == TraverseCall

SpecTraverse == InitTraverse /\ [][NextTraverse]_vars

TraverseDone == trav.result \notin {"pending", "idle"}

\* The successor a node's edge list puts first (the outer ring at O5 and O10,
\* A3 at C); "FINISHED" past O20 and from "FINISHED".
DefaultSuccessor(node) ==
    IF node = "FINISHED" THEN "FINISHED"
    ELSE IF BOARD_GRAPH[node].next = << >> THEN "FINISHED"
    ELSE BOARD_GRAPH[node].next[1]

\* n hops along default successors
RECURSIVE DefaultWalk(_, _)
DefaultWalk(node, n) ==
    IF n = 0 THEN node ELSE DefaultWalk(DefaultSuccessor(node), n - 1)

\* The successor a choice names at a node: the second edge for the choice
\* that belongs to the node, the first edge otherwise.
ChoiceOfSecondEdge == [O5 |-> "DIAGONAL_A", O10 |-> "DIAGONAL_B", C |-> "TO_O20"]

ChosenSuccessor(node, choice) ==
    IF node \in DOMAIN ChoiceOfSecondEdge /\ choice = ChoiceOfSecondEdge[node]
    THEN BOARD_GRAPH[node].next[2]
    ELSE DefaultSuccessor(node)

\* C4: traverseSteps uses the branch choice for the hop that leaves the start
\* node and for no other hop: from a start that is no branch node the result
\* is the choice-free walk; a walk that comes to O5 or O10 after its first
\* hop (from O4 or O9) goes on along the outer ring, through O6 or O11; from
\* a branch start the choice picks the first hop and the rest is the
\* choice-free walk (from O5 with DIAGONAL_A, 3 steps end on C).
C4_ChoiceFirstHopOnly ==
    (TraverseDone /\ trav.steps >= 1) =>
        /\ (~BOARD_GRAPH[trav.start].isBranchNode
               => trav.result = DefaultWalk(trav.start, trav.steps))
        /\ ((trav.start = "O4" /\ trav.steps >= 2)
               => trav.result = DefaultWalk("O6", trav.steps - 2))
        /\ ((trav.start = "O9" /\ trav.steps >= 2)
               => trav.result = DefaultWalk("O11", trav.steps - 2))
        /\ (BOARD_GRAPH[trav.start].isBranchNode
               => trav.result =
                      DefaultWalk(ChosenSuccessor(trav.start, trav.branchChoice),
                                  trav.steps - 1))
        /\ ((trav.start = "O5" /\ trav.branchChoice = "DIAGONAL_A" /\ trav.steps = 3)
               => trav.result = "C")

\* a walk passed O5 with a diagonal choice in hand and stayed on the outer ring
C4_Witness ==
    /\ TraverseDone
    /\ trav.start = "O4" /\ trav.steps = 3 /\ trav.branchChoice = "DIAGONAL_A"
    /\ trav.result = "O7"

\* The walk P of C5 as the list of nodes after the start: the chosen
\* successor, then default successors up to O20, where the board ends.
RECURSIVE PathFrom(_)
PathFrom(node) ==
    IF BOARD_GRAPH[node].next = << >> THEN << >>
    ELSE <<BOARD_GRAPH[node].next[1]>> \o PathFrom(BOARD_GRAPH[node].next[1])

WalkP(start, choice) ==
    IF BOARD_GRAPH[start].next = << >> THEN << >>
    ELSE <<ChosenSuccessor(start, choice)>>
         \o PathFrom(ChosenSuccessor(start, choice))

\* C5: traverseSteps(s, n, c) is the node n edges along the walk P when P has
\* that many edges up to O20, and 'FINISHED' exactly when a hop would have to
\* leave O20: landing on O20 is no finish, starting on O20 or running past
\* it is.
C5_ExactStepsOrFinished ==
    (TraverseDone /\ trav.steps >= 1) =>
        LET P == WalkP(trav.start, trav.branchChoice)
        IN  /\ (trav.steps <= Len(P) => trav.result = P[trav.steps])
            /\ (trav.result = "FINISHED" <=> trav.steps > Len(P))
            /\ (trav.start = "O20" => trav.result = "FINISHED")

\* a walk landed exactly on O20 and did not finish
C5_Witness ==
    /\ TraverseDone
    /\ trav.start = "O18" /\ trav.steps = 2 /\ trav.result = "O20"

(***************************************************************************)
(* Specification SpecMove: a game state built up by executeMove calls      *)
(* alone, as the rules tests do: from a game started with a given seed,    *)
(* any target (HOME, a stack id that exists or not, no stack id, an        *)
(* unknown type), any steps 1..MaxSteps, up to MaxMoves moves.  The branch *)
(* choice is left out, or is one the start node offers, or is one that     *)
(* belongs to another node.  A call that throws leaves the caller's state  *)
(* as it was.                                                              *)
(***************************************************************************)
TargetInputs ==
    {HomeTarget}
    \cup {StackTarget(id) : id \in {StackIdNames[i] : i \in DOMAIN StackIdNames}}
    \cup {StackTarget(Undefined), [type |-> "FLY", stackId |-> Undefined]}

StepInputs == 1..MaxSteps

\* the node a move of target starts from (O0 for a target that names no stack)
StartOf(state, target) ==
    LET found == SelectSeq(state.stacks, LAMBDA s : s.id = target.stackId)
    IN  IF target.type = "STACK" /\ Len(found) > 0 THEN found[1].position
        ELSE "O0"

\* branch choices handed to a move that starts on node: none, each option
\* the node offers, and TO_O20, which O5, O10 and the other nodes do not offer
ChoiceInputs(node) ==
    {Undefined, "TO_O20"}
    \cup {getBranchOptions(node)[i] : i \in DOMAIN getBranchOptions(node)}

InitMove ==
    /\ gs = SeededGame
    /\ last = InitLast
    /\ trav = IdleTrav
    /\ moves = 0
    /\ dispatched = 0

\* the caller after executeMove: it keeps the returned state, or its own
\* state if the call threw
AfterCall(target, result, finalPos) ==
    /\ gs' = IF IsError(result) THEN gs ELSE result
    /\ last' = [InitLast EXCEPT
                   !.type = "executeMove",
                   !.error = IF IsError(result) THEN result.error ELSE "none",
                   !.target = target,
                   !.finalPos = IF IsError(result) THEN "none" ELSE finalPos]
    /\ moves' = IF IsError(result) THEN moves ELSE moves + 1

ExecuteMoveCall ==
    /\ moves < MaxMoves
    /\ \E target \in TargetInputs, steps \in StepInputs :
         \E branchChoice \in ChoiceInputs(StartOf(gs, target)) :
           AfterCall(target, executeMove(gs, target, steps, branchChoice),
                     finalPosOf(gs, target, steps, branchChoice))
    /\ UNCHANGED <<trav, dispatched>>

NextMove == ExecuteMoveCall

SpecMove == InitMove /\ [][NextMove]_vars

\* ---- claims about executeMove ----

ToSet(seq) == {seq[i] : i \in DOMAIN seq}

StacksAt(state, position) ==
    SelectSeq(state.stacks, LAMBDA s : s.position = position)

PieceOf(state, pieceId) == state.pieces[pieceId + 1]

MoveDone == last.type = "executeMove" /\ last.error = "none"

\* C1: no two stacks of state.stacks stand on the same position, in every
\* state that executeMove calls build from the initial state.
C1_NoTwoStacksShareAPosition ==
    \A i, j \in DOMAIN gs.stacks :
        i # j => gs.stacks[i].position # gs.stacks[j].position

\* a move has just merged two stacks while another stack stands elsewhere
C1_Witness ==
    /\ MoveDone
    /\ Len(gs.stacks) >= 2
    /\ \E i \in DOMAIN gs.stacks :
           /\ gs.stacks[i].position = last.finalPos
           /\ Len(gs.stacks[i].pieceIds) >= 2

\* the pieces a move carries: the first HOME piece, or the pieces of the stack
ArrivingPieceIds(state, target) ==
    IF target.type = "HOME" THEN <<getHomePieces(state)[1].id>>
    ELSE LET found == SelectSeq(state.stacks, LAMBDA s : s.id = target.stackId)
         IN  found[1].pieceIds

\* the step from gs to gs' is a move that ended on a node where another
\* stack stood
LandedOnOccupied ==
    /\ last'.type = "executeMove"
    /\ last'.error = "none"
    /\ last'.finalPos # "FINISHED"
    /\ \E i \in DOMAIN gs.stacks :
           /\ gs.stacks[i].position = last'.finalPos
           /\ gs.stacks[i].id # last'.target.stackId

MergedAsClaimed ==
    LET pos == last'.finalPos
        existing == StacksAt(gs, pos)[1]
        arriving == ArrivingPieceIds(gs, last'.target)
        after == StacksAt(gs', pos)
    IN  /\ Len(after) = 1
        /\ after[1].id = existing.id
        /\ after[1].pieceIds = existing.pieceIds \o arriving
        /\ Cardinality(ToSet(after[1].pieceIds)) = Len(after[1].pieceIds)
        /\ {gs'.stacks[i].id : i \in DOMAIN gs'.stacks}
               = {gs.stacks[i].id : i \in DOMAIN gs.stacks} \ {last'.target.stackId}
        /\ \A i \in DOMAIN gs'.stacks :
               gs'.stacks[i].id # existing.id
                   => ToSet(gs'.stacks[i].pieceIds) \cap ToSet(arriving) = {}
        /\ \A p \in ToSet(after[1].pieceIds) :
               /\ PieceOf(gs', p).position = pos
               /\ PieceOf(gs', p).state = "ON_BOARD"

\* C2: a HOME spawn or STACK move that ends on a node where another stack
\* stands leaves exactly one stack on that node: it has the id of the stack
\* that stood there, its pieces are that stack's pieces followed by the
\* arriving ones (none lost, none twice), the arriving stack is gone, and
\* every piece of both has the node as position.
C2_MergeIntoExistingStack == [][LandedOnOccupied => MergedAsClaimed]_vars

\* a stack of two or more pieces has just arrived on an occupied node
C2_Witness ==
    /\ MoveDone
    /\ last.target.type = "STACK"
    /\ \E i \in DOMAIN gs.stacks :
           /\ gs.stacks[i].position = last.finalPos
           /\ gs.stacks[i].id # last.target.stackId
           /\ Len(gs.stacks[i].pieceIds) >= 3

StacksListing(state, pieceId) ==
    {i \in DOMAIN state.stacks : Includes(state.stacks[i].pieceIds, pieceId)}

\* C3: a piece has a position exactly when it is ON_BOARD; every stack
\* holds a piece; every piece a stack lists is ON_BOARD on the stack's
\* position; every ON_BOARD piece is listed in exactly one stack (and once).
C3_PiecesAndStacksAgree ==
    /\ \A k \in DOMAIN gs.pieces :
           (gs.pieces[k].position # Null) <=> (gs.pieces[k].state = "ON_BOARD")
    /\ \A i \in DOMAIN gs.stacks :
           /\ Len(gs.stacks[i].pieceIds) >= 1
           /\ \A p \in ToSet(gs.stacks[i].pieceIds) :
                  /\ PieceOf(gs, p).state = "ON_BOARD"
                  /\ PieceOf(gs, p).position = gs.stacks[i].position
           /\ Cardinality(ToSet(gs.stacks[i].pieceIds)) = Len(gs.stacks[i].pieceIds)
    /\ \A k \in DOMAIN gs.pieces :
           gs.pieces[k].state = "ON_BOARD"
               => Cardinality(StacksListing(gs, gs.pieces[k].id)) = 1

\* a move has just finished a piece while other pieces are still at HOME
C3_Witness ==
    /\ MoveDone
    /\ last.finalPos = "FINISHED"
    /\ \E k \in DOMAIN gs.pieces :
           gs.pieces[k].state = "FINISHED" /\ gs.pieces[k].position = Null
    /\ \E k \in DOMAIN gs.pieces : gs.pieces[k].state = "HOME"

(***************************************************************************)
(* Specification Spec: the reducer under every action a caller can         *)
(* dispatch, from the state the game hook starts with                      *)
(* (initializeGameState() with a generated seed).  Every sequence of up to *)
(* MaxDispatch actions of a game is followed; NEW_GAME starts the next     *)
(* game.  A dispatch that throws leaves the caller's state as it was.      *)
(***************************************************************************)
SeedInputs == {<< >>, <<" ">> \o TestSeed \o <<" ">>}

SelectableNodes == {"O1"}

TokenSelections == {None, Some(0)}

\* useReducer after the reducer ran: its result becomes the state, unless
\* the reducer threw
Commit(type, result) ==
    /\ gs' = IF IsError(result) THEN gs ELSE result
    /\ last' = [InitLast EXCEPT
                   !.type = type,
                   !.error = IF IsError(result) THEN result.error ELSE "none"]
    /\ UNCHANGED trav

\* useReducer's dispatch
Dispatch(action) == Commit(action.type, gameReducer(gs, action))

Counted ==
    /\ dispatched < MaxDispatch
    /\ dispatched' = dispatched + 1

Init ==
    /\ gs \in {initializeGameState(<< >>, NoSpecialNodes, generated) :
                   generated \in RandomSeeds}
    /\ last = InitLast
    /\ trav = IdleTrav
    /\ moves = 0
    /\ dispatched = 0

NewGame ==
    /\ \E seed \in SeedInputs, generated \in RandomSeeds :
         Dispatch([type |-> "NEW_GAME", seed |-> seed, generated |-> generated])
    /\ moves' = 0
    /\ dispatched' = 0

SetPhase ==
    /\ Counted
    /\ \E phase \in GamePhase : Dispatch([type |-> "SET_PHASE", phase |-> phase])
    /\ UNCHANGED moves

IncrementTurn ==
    /\ Counted
    /\ Dispatch([type |-> "INCREMENT_TURN"])
    /\ UNCHANGED moves

EndTurn ==
    /\ Counted
    /\ Dispatch([type |-> "END_TURN"])
    /\ UNCHANGED moves

SetSelectedNode ==
    /\ Counted
    /\ \E nodeId \in SelectableNodes \cup {Undefined} :
         Dispatch([type |-> "SET_SELECTED_NODE", nodeId |-> nodeId])
    /\ UNCHANGED moves

SetSelectedToken ==
    /\ Counted
    /\ \E tokenIndex \in TokenSelections :
         Dispatch([type |-> "SET_SELECTED_TOKEN", tokenIndex |-> tokenIndex])
    /\ UNCHANGED moves

AddHandToken ==
    /\ Counted
    /\ \E token \in HandTokens :
         Dispatch([type |-> "ADD_HAND_TOKEN", token |-> token])
    /\ UNCHANGED moves

RemoveHandToken ==
    /\ Counted
    /\ \E index \in -1..MaxHand :
         Dispatch([type |-> "REMOVE_HAND_TOKEN", index |-> index])
    /\ UNCHANGED moves

SetThrowsRemaining ==
    /\ Counted
    /\ \E count \in 0..MaxThrows :
         Dispatch([type |-> "SET_THROWS_REMAINING", count |-> count])
    /\ UNCHANGED moves

DecrementThrowsRemaining ==
    /\ Counted
    /\ Dispatch([type |-> "DECREMENT_THROWS_REMAINING"])
    /\ UNCHANGED moves

IncrementThrowsRemaining ==
    /\ Counted
    /\ Dispatch([type |-> "INCREMENT_THROWS_REMAINING"])
    /\ UNCHANGED moves

CommitThrow(token, result) ==
    /\ gs' = IF IsError(result) THEN gs ELSE result
    /\ last' = [InitLast EXCEPT
                   !.type = "THROW_YUT",
                   !.error = IF IsError(result) THEN result.error ELSE "none",
                   !.token = token,
                   !.throws = gs.throwsRemaining]
    /\ UNCHANGED <<trav, moves>>

\* THROW_YUT with any token
ThrowYutStep ==
    \E token \in HandTokens :
        CommitThrow(token,
                    gameReducer(gs, [type |-> "THROW_YUT", token |-> token]))

ThrowYut ==
    /\ Counted
    /\ ThrowYutStep

CommitMove(result, limit) ==
    /\ IF IsError(result) THEN TRUE ELSE moves < limit
    /\ Commit("EXECUTE_MOVE", result)
    /\ moves' = IF IsError(result) THEN moves ELSE moves + 1

\* EXECUTE_MOVE with any token index, a target of targets and a branch
\* choice, while the game has had fewer than limit successful moves
ExecuteMoveStep(targets, limit) ==
    \E tokenIndex \in -1..MaxHand, target \in targets :
      \E branchChoice \in ChoiceInputs(StartOf(gs, target)) :
        CommitMove(gameReducer(gs, [type |-> "EXECUTE_MOVE",
                                    tokenIndex |-> tokenIndex,
                                    target |-> target,
                                    branchChoice |-> branchChoice]),
                   limit)

ExecuteMove ==
    /\ Counted
    /\ ExecuteMoveStep(TargetInputs, MaxDispatch)

Next ==
    \/ NewGame
    \/ SetPhase
    \/ IncrementTurn
    \/ EndTurn
    \/ SetSelectedNode
    \/ SetSelectedToken
    \/ AddHandToken
    \/ RemoveHandToken
    \/ SetThrowsRemaining
    \/ DecrementThrowsRemaining
    \/ IncrementThrowsRemaining
    \/ ThrowYut
    \/ ExecuteMove

Spec == Init /\ [][Next]_vars

(***************************************************************************)
(* Specification SpecSpawn: a game played through the reducer in which the *)
(* pieces leave HOME one after another.  A token is thrown when the hand   *)
(* is empty; EXECUTE_MOVE gets any token index and the HOME target or a    *)
(* target that names no stack of the board, up to MaxMoves successful      *)
(* moves, so HOME runs empty.                                              *)
(***************************************************************************)
SpawnTargets(state) ==
    {target \in TargetInputs :
        target.type = "STACK" =>
            \A i \in DOMAIN state.stacks : state.stacks[i].id # target.stackId}

InitSpawn ==
    /\ gs = SeededGame
    /\ last = InitLast
    /\ trav = IdleTrav
    /\ moves = 0
    /\ dispatched = 0

SpawnThrow ==
    /\ Len(gs.hand) = 0
    /\ ThrowYutStep
    /\ UNCHANGED dispatched

SpawnMove ==
    /\ ExecuteMoveStep(SpawnTargets(gs), MaxMoves)
    /\ UNCHANGED dispatched

NextSpawn == SpawnThrow \/ SpawnMove

SpecSpawn == InitSpawn /\ [][NextSpawn]_vars

\* ---- claims about the reducer ----

GrantsBonus(token) == token.result \in {"YUT", "MO"}

\* the EXECUTE_MOVE actions a caller can hand to the reducer in state
MoveActions(state) ==
    UNION { { [type |-> "EXECUTE_MOVE", tokenIndex |-> tokenIndex,
               target |-> target, branchChoice |-> branchChoice] :
                 tokenIndex \in -1..(Len(state.hand) + 1),
                 branchChoice \in ChoiceInputs(StartOf(state, target)) } :
            target \in TargetInputs }

\* C6: THROW_YUT is accepted only in THROW phase with throwsRemaining > 0:
\* a THROW_YUT dispatched in another phase, or with throwsRemaining = 0,
\* raises an error and leaves the hand as it was.
C6_ThrowYutOnlyWhenLegal ==
    [][ (/\ last'.type = "THROW_YUT"
         /\ (gs.phase # "THROW" \/ gs.throwsRemaining = 0))
        => (last'.error # "none" /\ gs'.hand = gs.hand) ]_vars

\* a THROW_YUT that was accepted outside the THROW phase
C6_Witness ==
    /\ last.type = "THROW_YUT"
    /\ last.error = "none"
    /\ gs.phase = "PLAY"
    /\ Len(gs.hand) > 0
    /\ gs.hand[Len(gs.hand)] = last.token

\* C7: for every state and every token, THROW_YUT appends the token as the
\* last element of the hand, and changes throwsRemaining by zero for YUT and
\* MO and by minus one, never below 0, for DO, GAE and GEOL.
C7_NetZeroFromEveryState ==
    [][ last'.type = "THROW_YUT"
        => /\ last'.error = "none"
           /\ gs'.hand = gs.hand \o <<last'.token>>
           /\ gs'.throwsRemaining =
                  IF GrantsBonus(last'.token) THEN gs.throwsRemaining
                  ELSE IF gs.throwsRemaining = 0 THEN 0
                  ELSE gs.throwsRemaining - 1 ]_vars

\* a bonus token thrown with throwsRemaining = 0 onto a hand that held a token
C7_Witness ==
    /\ last.type = "THROW_YUT"
    /\ last.error = "none"
    /\ GrantsBonus(last.token)
    /\ last.throws = 0
    /\ gs.throwsRemaining = 1
    /\ Len(gs.hand) >= 2
    /\ gs.hand[Len(gs.hand)] = last.token

\* C8: EXECUTE_MOVE is accepted only in PLAY phase: dispatched while the
\* phase is THROW, REWARD or GAME_OVER it raises an error, no piece is moved
\* and no token is consumed.
C8_ExecuteMoveOnlyInPlay ==
    [][ (last'.type = "EXECUTE_MOVE" /\ gs.phase # "PLAY")
        => /\ last'.error # "none"
           /\ gs'.pieces = gs.pieces
           /\ gs'.stacks = gs.stacks
           /\ gs'.hand = gs.hand ]_vars

\* an EXECUTE_MOVE that moved a piece while the phase was THROW: the move
\* left a token in the hand, so it ended no turn and the phase is the one
\* it found
C8_Witness ==
    /\ last.type = "EXECUTE_MOVE"
    /\ last.error = "none"
    /\ gs.phase = "THROW"
    /\ Len(gs.hand) > 0
    /\ moves = 1

InvalidMove(state, action) ==
    \/ action.tokenIndex < 0
    \/ action.tokenIndex >= Len(state.hand)
    \/ /\ action.target.type = "STACK"
       /\ \/ action.target.stackId = Undefined
          \/ \A i \in DOMAIN state.stacks :
                state.stacks[i].id # action.target.stackId
    \/ action.target.type \notin {"HOME", "STACK"}
    \/ /\ action.target.type = "HOME"
       /\ \A i \in DOMAIN state.pieces : state.pieces[i].state # "HOME"

InvalidMovesRaise ==
    \A action \in MoveActions(gs) :
        InvalidMove(gs, action) => IsError(gameReducer(gs, action))

\* C9: EXECUTE_MOVE with a token index that is negative or not below the
\* hand length, with a STACK target whose stackId is missing or names no
\* stack, with an unknown target type, or with the HOME target while no
\* piece is at HOME raises an error, in every reachable state; and a
\* dispatch that raised leaves the whole state as it was.
C9_InvalidMoveRaisesAndKeepsState ==
    /\ []InvalidMovesRaise
    /\ [][ (last'.type = "EXECUTE_MOVE" /\ last'.error # "none")
           => gs' = gs ]_vars

\* the HOME target refused after all four pieces left HOME, token still held
C9_Witness ==
    /\ last.type = "EXECUTE_MOVE"
    /\ last.error = "No pieces at HOME to spawn"
    /\ Len(getHomePieces(gs)) = 0
    /\ Len(gs.hand) = 1
    /\ moves = MaxMoves

\* the hand without its element at index (counted from 0)
RemoveAt(hand, index) ==
    SubSeq(hand, 1, index) \o SubSeq(hand, index + 2, Len(hand))

\* C10: in every reachable state, an EXECUTE_MOVE that succeeds with token
\* index i moves the pieces as executeMove does with the steps of hand[i],
\* leaves the hand without exactly its element at index i (the other tokens
\* in their order), and clears selectedTokenIndex and selectedNodeId.
C10_MoveConsumesItsToken ==
    \A action \in MoveActions(gs) :
        LET result == gameReducer(gs, action)
        IN  ~IsError(result) =>
              LET moved == executeMove(gs, action.target,
                                       gs.hand[action.tokenIndex + 1].steps,
                                       action.branchChoice)
              IN  /\ result.hand = RemoveAt(gs.hand, action.tokenIndex)
                  /\ Len(result.hand) = Len(gs.hand) - 1
                  /\ result.selectedTokenIndex = None
                  /\ result.selectedNodeId = Undefined
                  /\ result.pieces = moved.pieces
                  /\ result.stacks = moved.stacks

\* a move that used the GAE of a two-token hand and left the DO
C10_Witness ==
    /\ last.type = "EXECUTE_MOVE"
    /\ last.error = "none"
    /\ moves = 1
    /\ gs.hand = << [result |-> "DO", steps |-> 1] >>
    /\ PieceOf(gs, 0).position = "O2"
    /\ gs.selectedTokenIndex = None
    /\ gs.selectedNodeId = Undefined

(***************************************************************************)
(* Specification SpecEndgame: the end of a game.  The game starts where a  *)
(* scripted play through the reducer has left it: k of the four pieces     *)
(* stacked on O20 (one step before the finish) and the others at HOME, or  *)
(* all four finished.  From there any MaxCalls operations follow: the      *)
(* reducer's THROW_YUT, EXECUTE_MOVE and END_TURN, and the engine's phase  *)
(* functions a component calls directly.                                   *)
(***************************************************************************)
MaxCalls == 3

MoToken == [result |-> "MO", steps |-> 5]
GeolToken == [result |-> "GEOL", steps |-> 3]
DoToken == [result |-> "DO", steps |-> 1]

ThrowAndMove(token, target, branchChoice) ==
    << [type |-> "THROW_YUT", token |-> token],
       [type |-> "EXECUTE_MOVE", tokenIndex |-> 0, target |-> target,
        branchChoice |-> branchChoice] >>

\* MO from HOME lands on O5, and every later piece joins the stack there
SpawnOnO5 == ThrowAndMove(MoToken, HomeTarget, Undefined)

\* the stack of O5 takes the diagonal to C, then the way from C to O20
StackToO20 ==
    ThrowAndMove(GeolToken, StackTarget("stack-1"), "DIAGONAL_A")
    \o ThrowAndMove(GeolToken, StackTarget("stack-1"), "TO_O20")

FinishStack1 == ThrowAndMove(DoToken, StackTarget("stack-1"), Undefined)

RECURSIVE Repeat(_, _)
Repeat(script, n) == IF n = 0 THEN << >> ELSE script \o Repeat(script, n - 1)

\* the game after the actions of script went through the reducer in order
RECURSIVE Played(_, _)
Played(state, script) ==
    IF script = << >> THEN state
    ELSE Played(gameReducer(state, Head(script)), Tail(script))

\* k pieces stacked on O20, the others at HOME
StackedOnO20(k) == Played(SeededGame, Repeat(SpawnOnO5, k) \o StackToO20)

AllFinished == Played(StackedOnO20(4), FinishStack1)

EndgameStarts == {StackedOnO20(k) : k \in 1..4} \cup {AllFinished}

InitEndgame ==
    /\ gs \in EndgameStarts
    /\ last = InitLast
    /\ trav = IdleTrav
    /\ moves = 0
    /\ dispatched = 0

CountedCall ==
    /\ dispatched < MaxCalls
    /\ dispatched' = dispatched + 1

\* a component that keeps the state an engine function returns, or its own
\* state if the function threw
EngineCall(name, result) ==
    /\ Commit(name, result)
    /\ UNCHANGED moves

EndgameThrow ==
    /\ CountedCall
    /\ ThrowYutStep

EndgameMove ==
    /\ CountedCall
    /\ ExecuteMoveStep(TargetInputs, MaxCalls)

EndgameEndTurn ==
    /\ CountedCall
    /\ Dispatch([type |-> "END_TURN"])
    /\ UNCHANGED moves

TransitionToPlayCall ==
    /\ CountedCall
    /\ EngineCall("transitionToPlay", transitionToPlay(gs))

AdvanceTurnCall ==
    /\ CountedCall
    /\ EngineCall("advanceTurn", advanceTurn(gs))

\* rngs for the reward candidates: one draw, repeated
RewardRngs == {<<d>> : d \in Draws}

TransitionToRewardCall ==
    /\ CountedCall
    /\ \E stackSize \in 1..4, rng \in RewardRngs :
         EngineCall("transitionToReward",
                    transitionToReward(
                        gs, stackSize,
                        generateArtifactCandidates(
                            calculateRewardChoices(stackSize), rng)))

\* the artifacts completeReward is called with: a candidate of the pending
\* reward, or the first artifact of the pool
RewardInputs(state) ==
    {ARTIFACT_POOL[1]}
    \cup (IF state.pendingReward = None THEN {}
          ELSE ToSet(state.pendingReward[1].candidates))

CompleteRewardCall ==
    /\ CountedCall
    /\ \E selectedArtifact \in RewardInputs(gs) :
         EngineCall("completeReward", completeReward(gs, selectedArtifact))

\* GameLayout's handleExecuteMove after executeMove and removeHandToken.
\* A move that finishes a piece asks generateArtifactCandidates for the
\* candidates with the rng () => newState.rng.next(); a GameState has no
\* field rng, so the first draw of the shuffle raises a TypeError.
layoutAfterMove(gameState, newState) ==
    IF IsError(newState) THEN newState
    ELSE IF getFinishedCount(newState) > getFinishedCount(gameState)
    THEN Err("Cannot read properties of undefined (reading 'next')")
    ELSE IF Len(newState.hand) = 0
    THEN IF ~isGameOver(newState) THEN advanceTurn(newState)
         ELSE [newState EXCEPT !.phase = "GAME_OVER"]
    ELSE newState

removeHandToken(state, index) ==
    IF IsError(state) THEN state
    ELSE [state EXCEPT !.hand = FilterIndexFrom(state.hand, index, 1)]

\* GameLayout's handleExecuteMove: the state handed to setGameState
handleExecuteMove(gameState, tokenIndex, target, branchChoice) ==
    IF tokenIndex < 0 \/ tokenIndex >= Len(gameState.hand) THEN gameState
    ELSE layoutAfterMove(
             gameState,
             removeHandToken(
                 executeMove(gameState, target,
                             gameState.hand[tokenIndex + 1].steps, branchChoice),
                 tokenIndex))

LayoutMoveCall ==
    /\ CountedCall
    /\ \E tokenIndex \in -1..MaxHand, target \in TargetInputs :
         \E branchChoice \in ChoiceInputs(StartOf(gs, target)) :
           EngineCall("handleExecuteMove",
                      handleExecuteMove(gs, tokenIndex, target, branchChoice))

NextEndgame ==
    \/ LayoutMoveCall
    \/ EndgameThrow
    \/ EndgameMove
    \/ EndgameEndTurn
    \/ TransitionToPlayCall
    \/ AdvanceTurnCall
    \/ TransitionToRewardCall
    \/ CompleteRewardCall

SpecEndgame == InitEndgame /\ [][NextEndgame]_vars

\* ---- claims about the phases ----

\* the three outcomes of a move: game over, next turn, or the turn goes on
ResolvedAfterMove(before, after) ==
    IF getFinishedCount(after) = 4
    THEN after.phase = "GAME_OVER" /\ after.turn = before.turn
    ELSE IF Len(after.hand) = 0
         THEN /\ after.phase = "THROW"
              /\ after.turn = before.turn + 1
              /\ after.throwsRemaining = 1
    ELSE after.phase = before.phase /\ after.turn = before.turn

\* C11: after a successful EXECUTE_MOVE, if all 4 pieces are FINISHED the
\* phase is GAME_OVER and the turn is unchanged; otherwise, if the hand is
\* now empty, the phase is THROW, the turn is one more and throwsRemaining
\* is 1; otherwise phase (PLAY when it was PLAY) and turn are unchanged.
\* Checked on the move just dispatched and on every move the reducer could
\* be handed next.
C11_MoveResolvesPhaseAndTurn ==
    /\ [](\A action \in MoveActions(gs) :
            IF IsError(gameReducer(gs, action)) THEN TRUE
            ELSE ResolvedAfterMove(gs, gameReducer(gs, action)))
    /\ [][(last'.type = "EXECUTE_MOVE" /\ last'.error = "none")
            => ResolvedAfterMove(gs, gs')]_vars

\* the last piece has finished: the game is over in the turn of the move
C11_Witness ==
    /\ last.type = "EXECUTE_MOVE"
    /\ last.error = "none"
    /\ getFinishedCount(gs) = 4
    /\ gs.phase = "GAME_OVER"
    /\ gs.turn = StackedOnO20(4).turn

\* C12: GAME_OVER is absorbing: once the phase is GAME_OVER with all 4
\* pieces FINISHED, no operation other than NEW_GAME and SET_PHASE (not
\* THROW_YUT, END_TURN, EXECUTE_MOVE, advanceTurn, transitionToReward or
\* completeReward) leads to a state whose phase is not GAME_OVER.
C12_GameOverIsAbsorbing ==
    [][(/\ gs.phase = "GAME_OVER"
        /\ getFinishedCount(gs) = 4
        /\ last'.type \notin {"NEW_GAME", "SET_PHASE"})
       => gs'.phase = "GAME_OVER"]_vars

\* END_TURN was dispatched in a finished game, and a new turn has begun
C12_Witness ==
    /\ last.type = "END_TURN"
    /\ last.error = "none"
    /\ getFinishedCount(gs) = 4
    /\ gs.phase = "THROW"
    /\ gs.turn = AllFinished.turn + 1

\* what completeReward returns in REWARD phase
RewardCompleted(before, selectedArtifact, after) ==
    /\ ~IsError(after)
    /\ after.artifacts = Append(before.artifacts, selectedArtifact)
    /\ after.pendingReward = None
    /\ IF getFinishedCount(before) = 4
       THEN after.phase = "GAME_OVER" /\ after.turn = before.turn
       ELSE IF Len(before.hand) = 0
            THEN /\ after.phase = "THROW"
                 /\ after.turn = before.turn + 1
                 /\ after.throwsRemaining = 1
       ELSE after.phase = "PLAY" /\ after.turn = before.turn

CompleteRewardAsClaimed(before, selectedArtifact, after) ==
    IF before.phase = "REWARD"
    THEN RewardCompleted(before, selectedArtifact, after)
    ELSE IsError(after)

\* C13: completeReward raises an error outside REWARD phase; in REWARD phase
\* it appends the selected artifact, and only it, to the end of artifacts,
\* sets pendingReward to null and resolves the phase: GAME_OVER if all 4
\* pieces are FINISHED, else THROW with turn+1 and throwsRemaining 1 if the
\* hand is empty, else PLAY with the turn unchanged.  Checked on every
\* artifact at every reached state and on the calls made.
C13_CompleteRewardContract ==
    /\ [](\A selectedArtifact \in RewardInputs(gs) :
            CompleteRewardAsClaimed(gs, selectedArtifact,
                                    completeReward(gs, selectedArtifact)))
    /\ [][last'.type = "completeReward" =>
            /\ (last'.error = "none") <=> (gs.phase = "REWARD")
            /\ last'.error # "none" => gs' = gs
            /\ last'.error = "none" =>
                 /\ Len(gs'.artifacts) = Len(gs.artifacts) + 1
                 /\ SubSeq(gs'.artifacts, 1, Len(gs.artifacts)) = gs.artifacts
                 /\ gs'.pendingReward = None
                 /\ gs'.phase \in {"GAME_OVER", "THROW", "PLAY"}]_vars

\* a reward was completed with a token left in the hand: back to PLAY
C13_Witness ==
    /\ last.type = "completeReward"
    /\ last.error = "none"
    /\ Len(gs.artifacts) = 1
    /\ gs.pendingReward = None
    /\ Len(gs.hand) > 0
    /\ gs.phase = "PLAY"

\* what C14 expects of a move that finished k pieces
RewardPending(after, k) ==
    /\ after.phase = "REWARD"
    /\ IF after.pendingReward = None THEN FALSE
       ELSE /\ after.pendingReward[1].stackSize = k
            /\ Len(after.pendingReward[1].candidates) = calculateRewardChoices(k)

\* C14: when a move (the reducer's EXECUTE_MOVE or the layout's
\* handleExecuteMove) finishes a stack of k pieces while at least one piece
\* is still unfinished, the resulting state is in REWARD phase with a
\* pendingReward of stackSize k and max(1, 4 - k) candidates.
C14_FinishEntersReward ==
    [][(/\ last'.type \in {"EXECUTE_MOVE", "handleExecuteMove"}
        /\ last'.error = "none"
        /\ getFinishedCount(gs') > getFinishedCount(gs)
        /\ getFinishedCount(gs') < 4)
       => RewardPending(gs', getFinishedCount(gs') - getFinishedCount(gs))]_vars

\* EXECUTE_MOVE has finished a stack of three, one piece is still at HOME,
\* and the next turn has begun without a reward
C14_Witness ==
    /\ last.type = "EXECUTE_MOVE"
    /\ last.error = "none"
    /\ getFinishedCount(gs) = 3
    /\ gs.phase = "THROW"
    /\ gs.pendingReward = None
    /\ gs.turn = StackedOnO20(3).turn + 1

\* after differs from before in the field phase only, which is PLAY
OnlyPhaseToPlay(before, after) ==
    /\ ~IsError(after)
    /\ DOMAIN after = DOMAIN before
    /\ after.phase = "PLAY"
    /\ \A field \in DOMAIN before \ {"phase"} : after[field] = before[field]

\* C15: THROW to PLAY happens only through the explicit start-move call:
\* THROW_YUT never changes the phase, also when it brings throwsRemaining
\* to 0, and transitionToPlay changes only the phase when called in THROW
\* and raises an error when called in any other phase.
C15_ThrowToPlayIsExplicit ==
    /\ [](/\ \A token \in HandTokens :
               gameReducer(gs, [type |-> "THROW_YUT", token |-> token]).phase
                   = gs.phase
          /\ IF gs.phase = "THROW"
             THEN OnlyPhaseToPlay(gs, transitionToPlay(gs))
             ELSE IsError(transitionToPlay(gs)))
    /\ [][/\ last'.type = "THROW_YUT" => gs'.phase = gs.phase
          /\ last'.type = "transitionToPlay" =>
               IF gs.phase = "THROW"
               THEN last'.error = "none" /\ OnlyPhaseToPlay(gs, gs')
               ELSE last'.error # "none" /\ gs' = gs]_vars

\* the only throw of the turn is used up, the phase was still THROW, and
\* the start-move call has made it PLAY
C15_Witness ==
    /\ last.type = "transitionToPlay"
    /\ last.error = "none"
    /\ gs.phase = "PLAY"
    /\ gs.throwsRemaining = 0
    /\ Len(gs.hand) = 1

(***************************************************************************)
(* Specification SpecSticks: the stick inventory.  From a new game, up to  *)
(* MaxStickCalls calls of offerStick (any stick of StickInputs),           *)
(* handleStickNodeEvent (any rng), replaceStickInInventory (any slot       *)
(* -1..4) and discardStickOffer, in any order.                             *)
(***************************************************************************)
MaxStickCalls == 5

StickInputs == {BASIC_STICK, STICK_POOL[1], STICK_POOL[10]}

SlotInputs == -1..4

InitSticks ==
    /\ gs = SeededGame
    /\ last = InitLast
    /\ trav = IdleTrav
    /\ moves = 0
    /\ dispatched = 0

CountedStickCall ==
    /\ dispatched < MaxStickCalls
    /\ dispatched' = dispatched + 1

OfferStickCall ==
    /\ CountedStickCall
    /\ \E stick \in StickInputs :
         EngineCall("offerStick", offerStick(gs, stick))

StickNodeEventCall ==
    /\ CountedStickCall
    /\ \E rng \in RewardRngs :
         EngineCall("handleStickNodeEvent", handleStickNodeEvent(gs, rng))

ReplaceStickCall ==
    /\ CountedStickCall
    /\ \E slotIndex \in SlotInputs :
         EngineCall("replaceStickInInventory",
                    replaceStickInInventory(gs, slotIndex))

DiscardStickCall ==
    /\ CountedStickCall
    /\ EngineCall("discardStickOffer", discardStickOffer(gs))

NextSticks ==
    \/ OfferStickCall
    \/ StickNodeEventCall
    \/ ReplaceStickCall
    \/ DiscardStickCall

SpecSticks == InitSticks /\ [][NextSticks]_vars

\* ---- claims about the stick inventory ----

\* after differs from before in the field pendingStickOffer at most
OnlyOfferChanged(before, after) ==
    /\ DOMAIN after = DOMAIN before
    /\ \A field \in DOMAIN before \ {"pendingStickOffer"} :
         after[field] = before[field]

OfferedAsClaimed(before, stick, after) ==
    IF before.pendingStickOffer # None
    THEN IsError(after)
    ELSE /\ ~IsError(after)
         /\ after.pendingStickOffer = Some([offeredStick |-> stick])
         /\ OnlyOfferChanged(before, after)

\* C16: at most one stick offer is pending.  offerStick, and
\* handleStickNodeEvent which calls it, raise an error when an offer is
\* pending and leave that offer untouched; when none is pending they set
\* the offer and change nothing else.
C16_OneOfferAtATime ==
    /\ [](/\ \A stick \in StickInputs :
               OfferedAsClaimed(gs, stick, offerStick(gs, stick))
          /\ \A rng \in RewardRngs :
               OfferedAsClaimed(gs, drawRandomStick(rng),
                                handleStickNodeEvent(gs, rng)))
    /\ [][last'.type \in {"offerStick", "handleStickNodeEvent"} =>
            IF gs.pendingStickOffer # None
            THEN last'.error # "none" /\ gs' = gs
            ELSE /\ last'.error = "none"
                 /\ gs'.pendingStickOffer # None
                 /\ OnlyOfferChanged(gs, gs')]_vars

\* a second offer was refused and the first offer is still the pending one
C16_Witness ==
    /\ last.type \in {"offerStick", "handleStickNodeEvent"}
    /\ last.error = "Cannot offer stick: pending offer already exists"
    /\ gs.pendingStickOffer = Some([offeredStick |-> STICK_POOL[1]])

\* the inventory with the stick put in the slot (counted from 0)
WithSlot(inventory, slotIndex, stick) ==
    [i \in 1..4 |-> IF i = slotIndex + 1 THEN stick ELSE inventory[i]]

ReplacedAsClaimed(before, slotIndex, after) ==
    IF before.pendingStickOffer = None \/ slotIndex \notin 0..3
    THEN IsError(after)
    ELSE /\ ~IsError(after)
         /\ after.stickInventory =
                WithSlot(before.stickInventory, slotIndex,
                         before.pendingStickOffer[1].offeredStick)
         /\ after.pendingStickOffer = None

DiscardedAsClaimed(before, after) ==
    IF before.pendingStickOffer = None
    THEN IsError(after)
    ELSE /\ ~IsError(after)
         /\ after.stickInventory = before.stickInventory
         /\ after.pendingStickOffer = None

\* C17: the inventory always holds exactly 4 sticks.  With an offer pending
\* and a slot of 0..3, replaceStickInInventory puts the offered stick in
\* that slot, leaves the other three and clears the offer; discardStickOffer
\* clears the offer and leaves the four slots; both raise an error when no
\* offer is pending, and replace raises for a slot outside 0..3; a call
\* that raises changes neither inventory nor offer.
C17_InventoryKeepsFourSticks ==
    /\ [](/\ Len(gs.stickInventory) = 4
          /\ \A slotIndex \in SlotInputs :
               ReplacedAsClaimed(gs, slotIndex,
                                 replaceStickInInventory(gs, slotIndex))
          /\ DiscardedAsClaimed(gs, discardStickOffer(gs)))
    /\ [][/\ last'.error # "none" => gs' = gs
          /\ (last'.type = "replaceStickInInventory" /\ last'.error = "none") =>
               /\ gs.pendingStickOffer # None
               /\ gs'.pendingStickOffer = None
               /\ \E slotIndex \in 0..3 :
                    gs'.stickInventory =
                        WithSlot(gs.stickInventory, slotIndex,
                                 gs.pendingStickOffer[1].offeredStick)
          /\ (last'.type = "discardStickOffer" /\ last'.error = "none") =>
               /\ gs.pendingStickOffer # None
               /\ gs'.pendingStickOffer = None
               /\ gs'.stickInventory = gs.stickInventory]_vars

\* two offers were put in slots 0 and 3; slots 1 and 2 are as they were
C17_Witness ==
    /\ last.type = "replaceStickInInventory"
    /\ last.error = "none"
    /\ gs.pendingStickOffer = None
    /\ gs.stickInventory =
           <<STICK_POOL[1], BASIC_STICK, BASIC_STICK, STICK_POOL[10]>>

(***************************************************************************)
(* Specification SpecNodes: special-node placement.  A game is started on  *)
(* a mapping written by hand, as the tests do, or on the mapping that      *)
(* createInitialSpecialNodes returns for any configuration of ConfigInputs *)
(* and any rng of DrawCycles; any number of refreshes follow, each with    *)
(* any rng.  trav holds the configuration and the result of the latest     *)
(* call of createInitialSpecialNodes, the calls made by                    *)
(* handleRefreshNodeEvent included.                                        *)
(***************************************************************************)
MaxSpecial == 2

\* an excluded list that leaves only the given nodes eligible
ExcludeAllBut(nodes) == SelectSeq(BoardKeys, LAMBDA nodeId : nodeId \notin nodes)

NodeConfig(stickCount, refreshCount, excludedNodeIds) ==
    [stickCount |-> stickCount, refreshCount |-> refreshCount,
     excludedNodeIds |-> excludedNodeIds]

\* the default and the tests' configurations; 25 and 26 special nodes for
\* the 25 nodes the default leaves eligible; up to MaxSpecial of each kind
\* on three eligible nodes; no exclusion; a list with a repeated and an
\* unknown id
ConfigInputs ==
    { DEFAULT_SPECIAL_NODE_CONFIG,
      NodeConfig(3, 1, DefaultExcluded),
      NodeConfig(20, 5, DefaultExcluded),
      NodeConfig(20, 6, DefaultExcluded),
      NodeConfig(100, 100, BoardKeys),
      NodeConfig(26, 0, << >>),
      NodeConfig(1, 1, <<"O0", "O0", "X9">>) }
    \cup { NodeConfig(s, r, ExcludeAllBut(nodes)) :
             s \in 0..MaxSpecial, r \in 0..MaxSpecial,
             nodes \in {{"O1", "O2", "A1"}, {"O0", "O5", "C"}} }

\* initializeGameState(specialNodes)
GameWithNodes(nodes) ==
    initializeGameState(TestSeed, nodes, CHOOSE g \in RandomSeeds : TRUE)

HandMadeNodes ==
    { NoSpecialNodes,
      [nodeId \in {"O1"} |-> "STICK"],
      [nodeId \in {"O1", "O5"} |-> IF nodeId = "O1" THEN "REFRESH" ELSE "STICK"] }

NoNodesCall ==
    [called |-> FALSE, config |-> DEFAULT_SPECIAL_NODE_CONFIG,
     result |-> NoSpecialNodes]

NodesCall(config, result) ==
    [called |-> TRUE, config |-> config, result |-> result]

InitNodes ==
    /\ gs \in {GameWithNodes(nodes) : nodes \in HandMadeNodes}
    /\ last = InitLast
    /\ trav = NoNodesCall
    /\ moves = 0
    /\ dispatched = 0

\* initializeGameState(createInitialSpecialNodes(config, rng))
StartedOn(config, result) ==
    /\ gs' = IF IsError(result) THEN gs ELSE GameWithNodes(result)
    /\ last' = [InitLast EXCEPT
                   !.type = "createInitialSpecialNodes",
                   !.error = IF IsError(result) THEN result.error ELSE "none"]
    /\ trav' = NodesCall(config, result)
    /\ UNCHANGED <<moves, dispatched>>

\* the game is started once
CreateNodesCall ==
    /\ ~trav.called
    /\ \E config \in ConfigInputs, rng \in DrawCycles :
         StartedOn(config, createInitialSpecialNodes(config, rng))

\* the caller after handleRefreshNodeEvent; what createInitialSpecialNodes
\* returned to it is the new mapping, or the error that passed through
RefreshedOn(config, result) ==
    /\ gs' = IF IsError(result) THEN gs ELSE result
    /\ last' = [InitLast EXCEPT
                   !.type = "handleRefreshNodeEvent",
                   !.error = IF IsError(result) THEN result.error ELSE "none"]
    /\ trav' = NodesCall(config, IF IsError(result) THEN result
                                 ELSE result.specialNodes)
    /\ UNCHANGED <<moves, dispatched>>

RefreshCall ==
    \E rng \in DrawCycles :
        RefreshedOn(refreshConfig(gs), handleRefreshNodeEvent(gs, rng))

NextNodes == CreateNodesCall \/ RefreshCall

SpecNodes == InitNodes /\ [][NextNodes]_vars

\* ---- claims about the special nodes ----

EligibleSet(config) == NodeIds \ ToSet(config.excludedNodeIds)

NodesOfType(specialNodes, wanted) ==
    {nodeId \in DOMAIN specialNodes : specialNodes[nodeId] = wanted}

PlacedAsClaimed(config, result) ==
    IF config.stickCount + config.refreshCount <= Cardinality(EligibleSet(config))
    THEN /\ ~IsError(result)
         /\ DOMAIN result = NodeIds
         /\ \A nodeId \in NodeIds : result[nodeId] \in {"NORMAL", "STICK", "REFRESH"}
         /\ Cardinality(NodesOfType(result, "STICK")) = config.stickCount
         /\ Cardinality(NodesOfType(result, "REFRESH")) = config.refreshCount
         /\ NodesOfType(result, "STICK") \subseteq EligibleSet(config)
         /\ NodesOfType(result, "REFRESH") \subseteq EligibleSet(config)
    ELSE IsError(result)

\* C18: for every configuration and rng, when stickCount + refreshCount
\* does not exceed the number of eligible nodes, createInitialSpecialNodes
\* returns a mapping over all board nodes with exactly stickCount STICK and
\* refreshCount REFRESH nodes, all on eligible nodes, every other node
\* NORMAL; when the sum exceeds the number of eligible nodes it raises an
\* error.
C18_SpecialNodesPlacedAsConfigured ==
    trav.called => PlacedAsClaimed(trav.config, trav.result)

\* a placement that uses up the three eligible nodes, drawn with an rng
\* that moves them
C18_Witness ==
    /\ trav.called
    /\ last.type = "createInitialSpecialNodes"
    /\ trav.config = NodeConfig(2, 1, ExcludeAllBut({"O1", "O2", "A1"}))
    /\ ~IsError(trav.result)
    /\ trav.result["O1"] = "REFRESH"
    /\ gs.specialNodes = trav.result

CountsKept(before, after) ==
    IF IsError(after) THEN TRUE
    ELSE /\ countNodes(after.specialNodes, "STICK")
              = countNodes(before.specialNodes, "STICK")
         /\ countNodes(after.specialNodes, "REFRESH")
              = countNodes(before.specialNodes, "REFRESH")

\* C19: a refresh keeps the number of STICK nodes and the number of REFRESH
\* nodes of state.specialNodes, and O0, O5, O10, C and O20 are NORMAL after
\* it; this holds for every refresh that can follow the current state and
\* for every refresh made, so after any number of refreshes the counts are
\* those before the first.
C19_RefreshKeepsCounts ==
    /\ [](\A rng \in DrawCycles :
            CountsKept(gs, handleRefreshNodeEvent(gs, rng)))
    /\ [][last'.type = "handleRefreshNodeEvent" =>
            /\ Cardinality(NodesOfType(gs'.specialNodes, "STICK"))
                 = Cardinality(NodesOfType(gs.specialNodes, "STICK"))
            /\ Cardinality(NodesOfType(gs'.specialNodes, "REFRESH"))
                 = Cardinality(NodesOfType(gs.specialNodes, "REFRESH"))
            /\ last'.error = "none" =>
                 \A nodeId \in ToSet(DefaultExcluded) :
                     gs'.specialNodes[nodeId] = "NORMAL"]_vars

\* a refresh of a default placement has put the special nodes elsewhere;
\* there are still 5 STICK and 2 REFRESH nodes
C19_Witness ==
    /\ last.type = "handleRefreshNodeEvent"
    /\ last.error = "none"
    /\ trav.config = DEFAULT_SPECIAL_NODE_CONFIG
    /\ Cardinality(NodesOfType(gs.specialNodes, "STICK")) = 5
    /\ Cardinality(NodesOfType(gs.specialNodes, "REFRESH")) = 2
    /\ gs.specialNodes # createInitialSpecialNodes(DEFAULT_SPECIAL_NODE_CONFIG, <<0>>)

(***************************************************************************)
(* Specification SpecLanding: moves on a board with special nodes.  The    *)
(* game starts on a hand-made mapping or on a default placement; a token   *)
(* is thrown when the hand is empty, EXECUTE_MOVE gets any input, up to    *)
(* MaxLandings successful moves, and handleNodeEvent is called for a node  *)
(* a stack stands on, up to MaxEvents times.                               *)
(***************************************************************************)
MaxLandings == 2

MaxEvents == 1

LandingBoards ==
    { [nodeId \in {"O1"} |-> "STICK"],
      [nodeId \in {"O1", "O2"} |-> IF nodeId = "O1" THEN "STICK" ELSE "REFRESH"],
      createInitialSpecialNodes(DEFAULT_SPECIAL_NODE_CONFIG, <<2>>) }

InitLanding ==
    /\ gs \in {GameWithNodes(nodes) : nodes \in LandingBoards}
    /\ last = InitLast
    /\ trav = IdleTrav
    /\ moves = 0
    /\ dispatched = 0

LandingThrow ==
    /\ Len(gs.hand) = 0
    /\ ThrowYutStep
    /\ UNCHANGED dispatched

LandingMove ==
    /\ ExecuteMoveStep(TargetInputs, MaxLandings)
    /\ UNCHANGED dispatched

NodeEventCall ==
    /\ dispatched < MaxEvents
    /\ dispatched' = dispatched + 1
    /\ \E i \in DOMAIN gs.stacks, rng \in RewardRngs :
         EngineCall("handleNodeEvent",
                    handleNodeEvent(gs, gs.stacks[i].position, rng))

NextLanding == LandingThrow \/ LandingMove \/ NodeEventCall

SpecLanding == InitLanding /\ [][NextLanding]_vars

\* the special type of the node the move of action ends on, NORMAL when
\* the input is rejected or the move leaves the board
landingType(state, action) ==
    IF IsError(gameReducer(state, action)) THEN "NORMAL"
    ELSE getSpecialNodeType(
             state,
             finalPosOf(state, action.target,
                        state.hand[action.tokenIndex + 1].steps,
                        action.branchChoice))

StickOffered(after) ==
    IF after.pendingStickOffer = None THEN FALSE
    ELSE after.pendingStickOffer[1].offeredStick \in ToSet(STICK_POOL)

Recomputed(before, after) ==
    \E rng \in DrawCycles :
        after.specialNodes =
            createInitialSpecialNodes(refreshConfig(before), rng)

\* C20: when EXECUTE_MOVE ends a move exactly on a STICK node, the
\* resulting state has a pending stick offer drawn from the stick pool;
\* when it ends exactly on a REFRESH node, the special-node mapping of the
\* resulting state has been recomputed.
C20_LandingTriggersNodeEvent ==
    \A action \in MoveActions(gs) :
        /\ landingType(gs, action) = "STICK" =>
               StickOffered(gameReducer(gs, action))
        /\ landingType(gs, action) = "REFRESH" =>
               Recomputed(gs, gameReducer(gs, action))

\* EXECUTE_MOVE has put a stack on the STICK node O1 and no stick is offered
C20_Witness ==
    /\ last.type = "EXECUTE_MOVE"
    /\ last.error = "none"
    /\ \E i \in DOMAIN gs.stacks :
         /\ gs.stacks[i].position = "O1"
         /\ getSpecialNodeType(gs, "O1") = "STICK"
    /\ gs.pendingStickOffer = None

\* the nodes the move of action passes over before its last hop
passedNodes(state, action) ==
    {finalPosOf(state, action.target, k, action.branchChoice) :
        k \in 1..(state.hand[action.tokenIndex + 1].steps - 1)}
    \ {"FINISHED"}

\* the move of action is accepted, passes over a STICK or REFRESH node and
\* ends on a NORMAL node or finishes
PassesSpecialOnly(state, action) ==
    IF IsError(gameReducer(state, action)) THEN FALSE
    ELSE /\ landingType(state, action) = "NORMAL"
         /\ \E nodeId \in passedNodes(state, action) :
              getSpecialNodeType(state, nodeId) \in {"STICK", "REFRESH"}

\* C21: a move whose traversal passes over STICK or REFRESH nodes but ends
\* on a NORMAL node, or finishes, leaves pendingStickOffer and specialNodes
\* exactly as they were before the move.
C21_PassingFiresNoEvent ==
    \A action \in MoveActions(gs) :
        PassesSpecialOnly(gs, action) =>
            /\ gameReducer(gs, action).pendingStickOffer = gs.pendingStickOffer
            /\ gameReducer(gs, action).specialNodes = gs.specialNodes

\* with a stick offer pending, a piece has gone from HOME over the STICK
\* node O1 and the REFRESH node O2 to O3; the offer is still there
C21_Witness ==
    /\ last.type = "EXECUTE_MOVE"
    /\ last.error = "none"
    /\ gs.pendingStickOffer # None
    /\ getSpecialNodeType(gs, "O1") = "STICK"
    /\ getSpecialNodeType(gs, "O2") = "REFRESH"
    /\ getSpecialNodeType(gs, "O3") = "NORMAL"
    /\ \E i \in DOMAIN gs.stacks :
         gs.stacks[i].position = "O3" /\ gs.stacks[i].id = "stack-1"

(***************************************************************************)
(* SpecThrow: throws of the four sticks on one rng, whose draws repeat in  *)
(* a cycle of SticksPerThrow.  trav holds the rng and what the last        *)
(* sampling returned, moves the number of calls made on the rng so far.    *)
(***************************************************************************)
MaxDraws == 8

\* the lowest draw, the middle one and the highest
ThrowDraws == {0, DrawScale \div 2, DrawScale - 1}

NeverBack == [id |-> "test", backProbability |-> 0]

AlwaysBack == [id |-> "test", backProbability |-> 100]

StickKinds == {NeverBack, BASIC_STICK, AlwaysBack}

\* lists of 0, 1, 3 and 5 sticks
WrongLengths ==
    {<< >>, <<BASIC_STICK>>, <<BASIC_STICK, BASIC_STICK, BASIC_STICK>>,
     <<BASIC_STICK, BASIC_STICK, BASIC_STICK, BASIC_STICK, BASIC_STICK>>}

\* every list of four sticks, and the lists of another length
StickLists == [1..SticksPerThrow -> StickKinds] \cup WrongLengths

\* the lists the calls are made with: the inventory of the game, as
\* performThrow passes it, five mixed lists and the lists of another length
ThrowInputs ==
    {SeededGame.stickInventory,
     <<NeverBack, BASIC_STICK, AlwaysBack, BASIC_STICK>>,
     <<AlwaysBack, NeverBack, NeverBack, NeverBack>>,
     <<NeverBack, NeverBack, NeverBack, AlwaysBack>>,
     <<AlwaysBack, AlwaysBack, AlwaysBack, AlwaysBack>>,
     <<NeverBack, NeverBack, NeverBack, NeverBack>>} \cup WrongLengths

BackCountInputs == -1..5

NoSample == [rng |-> <<0>>, face |-> "none", backCount |-> -1]

InitThrow ==
    /\ gs = SeededGame
    /\ last = InitLast
    /\ trav \in {[NoSample EXCEPT !.rng = rng] :
                    rng \in [1..SticksPerThrow -> ThrowDraws]}
    /\ moves = 0
    /\ dispatched = 0

\* the caller after a function that returns a value and has called rng
Sampled(name, result, token, face, backCount) ==
    /\ last' = [InitLast EXCEPT
                   !.type = name,
                   !.error = IF IsError(result) THEN result.error ELSE "none",
                   !.token = token]
    /\ trav' = [trav EXCEPT !.face = face, !.backCount = backCount]
    /\ moves' = IF IsError(result) THEN moves ELSE result.calls
    /\ UNCHANGED <<gs, dispatched>>

SampleStickCall ==
    /\ moves + 1 <= MaxDraws
    /\ \E stick \in StickKinds :
         Sampled("sampleStick", [calls |-> moves + 1], NoToken,
                 sampleStick(stick, drawAt(trav.rng, moves)), -1)

Sampled4(result) ==
    Sampled("sample4Sticks", result, NoToken, "none",
            IF IsError(result) THEN -1 ELSE result.value)

Sample4SticksCall ==
    /\ moves + SticksPerThrow <= MaxDraws
    /\ \E sticks \in ThrowInputs :
         Sampled4(sample4Sticks(sticks, trav.rng, moves))

Mapped(result) ==
    Sampled("mapBackCountToResult",
            IF IsError(result) THEN result ELSE [calls |-> moves],
            IF IsError(result) THEN NoToken ELSE result, "none", -1)

MapBackCountCall ==
    \E backCount \in BackCountInputs : Mapped(mapBackCountToResult(backCount))

Thrown(result) ==
    Sampled("throwYut", result,
            IF IsError(result) THEN NoToken ELSE result.value, "none", -1)

ThrowYutCall ==
    /\ moves + SticksPerThrow <= MaxDraws
    /\ \E sticks \in ThrowInputs : Thrown(throwYut(sticks, trav.rng, moves))

NextThrow ==
    \/ SampleStickCall
    \/ Sample4SticksCall
    \/ MapBackCountCall
    \/ ThrowYutCall

SpecThrow == InitThrow /\ [][NextThrow]_vars

\* ---- claims about a throw ----

\* the sticks of the list whose own draw, the i-th from the k-th on, is
\* strictly below their backProbability
BacksOf(sticks, rng, k) ==
    {i \in 1..Len(sticks) :
        drawAt(rng, k + i - 1) * 100 < sticks[i].backProbability * DrawScale}

TokenOfBackCount ==
    << [result |-> "MO", steps |-> 5], [result |-> "DO", steps |-> 1],
       [result |-> "GAE", steps |-> 2], [result |-> "GEOL", steps |-> 3],
       [result |-> "YUT", steps |-> 4] >>

ThrownAsClaimed(sticks, rng, k, sampled, thrown) ==
    IF Len(sticks) # 4
    THEN /\ sampled = Err("Must provide exactly 4 sticks")
         /\ thrown = Err("Must provide exactly 4 sticks")
    ELSE /\ sampled = [value |-> Cardinality(BacksOf(sticks, rng, k)),
                       calls |-> k + 4]
         /\ thrown = [value |-> TokenOfBackCount[sampled.value + 1],
                      calls |-> k + 4]

\* C22: a throw of 4 sticks calls the draw function exactly 4 times, once
\* per stick in stick order; the back count is the number of sticks whose
\* own draw is strictly below their backProbability (never for probability
\* 0, always for probability 1); back counts 0, 1, 2, 3, 4 give (MO,5),
\* (DO,1), (GAE,2), (GEOL,3), (YUT,4); a list of another length and a back
\* count outside 0..4 are errors.
C22_ThrowDrawsOncePerStick ==
    /\ \A sticks \in StickLists :
         ThrownAsClaimed(sticks, trav.rng, moves,
                         sample4Sticks(sticks, trav.rng, moves),
                         throwYut(sticks, trav.rng, moves))
    /\ \A draw \in Draws :
         /\ sampleStick(NeverBack, draw) = "Front"
         /\ sampleStick(AlwaysBack, draw) = "Back"
    /\ \A backCount \in BackCountInputs :
         mapBackCountToResult(backCount) =
            IF backCount \in 0..4 THEN TokenOfBackCount[backCount + 1]
            ELSE Err("Invalid backCount: " \o ToString(backCount))

\* the second throw on an rng that gives the lowest, the middle and the
\* highest draw has returned GAE and the rng has been called eight times
C22_Witness ==
    /\ last.type = "throwYut"
    /\ last.error = "none"
    /\ last.token = [result |-> "GAE", steps |-> 2]
    /\ moves = 8
    /\ {trav.rng[i] : i \in 1..4} = ThrowDraws

(***************************************************************************)
(* SpecReward: the reward functions on their own.  trav holds the stack    *)
(* size and the number of choices of the last calculateRewardChoices call  *)
(* and the count and the candidates of the generateArtifactCandidates      *)
(* call, which is made once.                                               *)
(***************************************************************************)
MaxStackSize == 6

StackSizeInputs == 0..MaxStackSize

\* counts below, inside and above the pool, and the count just calculated
CountInputs == (-1)..(Len(ARTIFACT_POOL) + 1)

NoRewardCall ==
    [stackSize |-> 0, choices |-> 0, generated |-> FALSE, count |-> 0,
     candidates |-> << >>]

InitReward ==
    /\ gs = SeededGame
    /\ last = InitLast
    /\ trav = NoRewardCall
    /\ moves = 0
    /\ dispatched = 0

RewardCalled(name, call) ==
    /\ last' = [InitLast EXCEPT !.type = name]
    /\ trav' = call
    /\ UNCHANGED <<gs, moves, dispatched>>

CalculateChoicesCall ==
    \E stackSize \in StackSizeInputs :
        RewardCalled("calculateRewardChoices",
                     [trav EXCEPT !.stackSize = stackSize,
                                  !.choices = calculateRewardChoices(stackSize)])

GenerateCandidatesCall ==
    /\ ~trav.generated
    /\ \E count \in CountInputs \cup {trav.choices}, rng \in DrawCycles :
         RewardCalled("generateArtifactCandidates",
                      [trav EXCEPT !.generated = TRUE, !.count = count,
                                   !.candidates =
                                       generateArtifactCandidates(count, rng)])

NextReward ==
    \/ CalculateChoicesCall
    \/ GenerateCandidatesCall

SpecReward == InitReward /\ [][NextReward]_vars

\* ---- claims about the reward functions ----

MaxOf(a, b) == IF a >= b THEN a ELSE b

MinOf(a, b) == IF a <= b THEN a ELSE b

\* C23: for a finishing stack of size k >= 1 the number of reward choices
\* is max(1, 4 - k); it is never below 1 and never grows with k.
C23_RewardChoicesFormula ==
    /\ last.type = "calculateRewardChoices" /\ trav.stackSize >= 1
         => trav.choices = MaxOf(1, 4 - trav.stackSize)
    /\ \A k \in 1..MaxStackSize :
         /\ calculateRewardChoices(k) = MaxOf(1, 4 - k)
         /\ calculateRewardChoices(k) >= 1
         /\ k > 1 => calculateRewardChoices(k) <= calculateRewardChoices(k - 1)

\* calculateRewardChoices has been called for a stack of five and gave 1
C23_Witness ==
    /\ last.type = "calculateRewardChoices"
    /\ trav.stackSize = 5
    /\ trav.choices = 1

\* C24: generateArtifactCandidates(count, rng) returns exactly
\* min(max(count, 0), pool size) artifacts, all of them from the pool and
\* pairwise distinct by id.
C24_CandidatesDistinctFromPool ==
    trav.generated =>
        /\ Len(trav.candidates) =
              MinOf(MaxOf(trav.count, 0), Len(ARTIFACT_POOL))
        /\ \A i \in DOMAIN trav.candidates :
              /\ trav.candidates[i] \in ToSet(ARTIFACT_POOL)
              /\ \A j \in DOMAIN trav.candidates :
                   trav.candidates[i].id = trav.candidates[j].id => i = j

\* three candidates have been generated, not the first three of the pool
C24_Witness ==
    /\ last.type = "generateArtifactCandidates"
    /\ trav.count = 3
    /\ Len(trav.candidates) = 3
    /\ trav.candidates # SubSeq(ARTIFACT_POOL, 1, 3)

(***************************************************************************)
(* SpecSeed: seeds given to normalizeSeed, to initializeGameState and to   *)
(* the SeededRandom constructor.  trav holds the seed given to the last    *)
(* call and the seed it returned, stored or reports.                       *)
(***************************************************************************)
MaxSeedLen == 3

SeedChars == {" ", "\r", "U+2003", "a"}

SeedStrings == UNION {[1..n -> SeedChars] : n \in 0..MaxSeedLen}

NoSeedCall == [input |-> << >>, seed |-> << >>]

InitSeed ==
    /\ gs = SeededGame
    /\ last = InitLast
    /\ trav = NoSeedCall
    /\ moves = 0
    /\ dispatched = 0

SeedCalled(name, input, seed) ==
    /\ last' = [InitLast EXCEPT !.type = name]
    /\ trav' = [input |-> input, seed |-> seed]
    /\ UNCHANGED <<moves, dispatched>>

\* normalizeSeed of a string, or of the seed the last call returned
NormalizeSeedCall ==
    /\ \E seed \in SeedStrings \cup {trav.seed}, generated \in RandomSeeds :
         SeedCalled("normalizeSeed", seed, normalizeSeed(seed, generated))
    /\ UNCHANGED gs

InitializeGameStateCall ==
    \E seed \in SeedStrings, generated \in RandomSeeds :
        /\ gs' = initializeGameState(seed, NoSpecialNodes, generated)
        /\ SeedCalled("initializeGameState", seed, gs'.seed)

SeededRandomCall ==
    /\ \E seed \in SeedStrings, generated \in SeededRandomSeeds :
         SeedCalled("SeededRandom", seed,
                    getSeed(SeededRandom(seed, generated)))
    /\ UNCHANGED gs

NextSeed ==
    \/ NormalizeSeedCall
    \/ InitializeGameStateCall
    \/ SeededRandomCall

SpecSeed == InitSeed /\ [][NextSeed]_vars

\* ---- claims about seeds ----

Alphanumeric ==
    {"A", "B", "C", "D", "E", "F", "G", "H", "I", "J", "K", "L", "M", "N",
     "O", "P", "Q", "R", "S", "T", "U", "V", "W", "X", "Y", "Z",
     "a", "b", "c", "d", "e", "f", "g", "h", "i", "j", "k", "l", "m", "n",
     "o", "p", "q", "r", "s", "t", "u", "v", "w", "x", "y", "z",
     "0", "1", "2", "3", "4", "5", "6", "7", "8", "9"}

AllWhitespace(str) == \A i \in DOMAIN str : str[i] \in Whitespace

\* seed is input without the whitespace around it, and is not empty
Stripped(input, seed) ==
    /\ Len(seed) > 0
    /\ seed[1] \notin Whitespace
    /\ seed[Len(seed)] \notin Whitespace
    /\ \E a \in 0..Len(input) :
         /\ a + Len(seed) <= Len(input)
         /\ SubSeq(input, a + 1, a + Len(seed)) = seed
         /\ AllWhitespace(SubSeq(input, 1, a))
         /\ AllWhitespace(SubSeq(input, a + Len(seed) + 1, Len(input)))

SeedAsClaimed(input, seed) ==
    IF AllWhitespace(input)
    THEN /\ Len(seed) = 10
         /\ \A i \in DOMAIN seed : seed[i] \in Alphanumeric
    ELSE /\ Stripped(input, seed)
         /\ \A generated \in RandomSeeds : normalizeSeed(seed, generated) = seed

\* normalizeSeed and initializeGameState of engine/state do as C25 says
StateSeedAsClaimed ==
    last.type \in {"normalizeSeed", "initializeGameState"}
        => SeedAsClaimed(trav.input, trav.seed)

\* C25: the normalized seed is the input without its surrounding whitespace
\* when that is non-empty (normalizing it again returns it unchanged), and a
\* generated alphanumeric seed of length exactly 10 when the trimmed input
\* is empty, both for the seed stored in GameState and for the seed a
\* SeededRandom reports.
C25_NormalizedSeed ==
    last.type \in {"normalizeSeed", "initializeGameState", "SeededRandom"}
        => SeedAsClaimed(trav.input, trav.seed)

\* a SeededRandom made from a blank seed reports a generated seed
C25_Witness ==
    /\ last.type = "SeededRandom"
    /\ trav.input = <<"U+2003", "\r">>
    /\ trav.seed \in SeededRandomSeeds

(***************************************************************************)
(* SpecTwins: two games started with the same seed and driven by the same  *)
(* choices.  gs is the first game and trav.twin the second.  performThrow  *)
(* (hooks/useGameState) calls throwYut(gameState.stickInventory) with no   *)
(* rng argument, so each game draws from Math.random: any draws, and not   *)
(* the same in the two games.                                              *)
(***************************************************************************)
MaxTwinSteps == 3

\* what Math.random can give a throw: one draw for each stick, each the
\* lowest draw (Back for a basic stick) or the highest (Front)
MathRandoms == [1..SticksPerThrow -> {0, DrawScale - 1}]

InitTwins ==
    /\ gs = SeededGame
    /\ last = InitLast
    /\ trav = [twin |-> SeededGame]
    /\ moves = 0
    /\ dispatched = 0

\* both games after the same choice; a dispatch that throws leaves its
\* game as it was
TwinStep(name, first, second) ==
    /\ dispatched < MaxTwinSteps
    /\ dispatched' = dispatched + 1
    /\ gs' = IF IsError(first) THEN gs ELSE first
    /\ trav' = [twin |-> IF IsError(second) THEN trav.twin ELSE second]
    /\ last' = [InitLast EXCEPT
                   !.type = name,
                   !.error = IF IsError(first) THEN first.error ELSE "none"]
    /\ UNCHANGED moves

\* const result = throwYut(gameState.stickInventory);
\* dispatch({ type: 'THROW_YUT', token: result })
performThrow(gameState, random) ==
    IF IsError(throwYut(gameState.stickInventory, random, 0))
    THEN throwYut(gameState.stickInventory, random, 0)
    ELSE gameReducer(gameState,
                     [type |-> "THROW_YUT",
                      token |-> throwYut(gameState.stickInventory,
                                         random, 0).value])

TwinsPerformThrow ==
    \E first \in MathRandoms, second \in MathRandoms :
        TwinStep("performThrow", performThrow(gs, first),
                 performThrow(trav.twin, second))

\* startMovePhase: dispatch({ type: 'SET_PHASE', phase: 'PLAY' })
TwinsStartMovePhase ==
    TwinStep("startMovePhase",
             gameReducer(gs, [type |-> "SET_PHASE", phase |-> "PLAY"]),
             gameReducer(trav.twin, [type |-> "SET_PHASE", phase |-> "PLAY"]))

\* the same token, target and branch chosen in both games
TwinsExecuteMove ==
    \E action \in MoveActions(gs) :
        TwinStep("EXECUTE_MOVE", gameReducer(gs, action),
                 gameReducer(trav.twin, action))

NextTwins ==
    \/ TwinsPerformThrow
    \/ TwinsStartMovePhase
    \/ TwinsExecuteMove

SpecTwins == InitTwins /\ [][NextTwins]_vars

\* ---- claims about reproducibility ----

\* C26: two games started with the same normalized seed and driven by the
\* same sequence of player choices go through identical sequences of game
\* states: the same tokens thrown, the same positions, the same turn count.
C26_SameSeedSameGame == gs = trav.twin

\* after one throw in each of two games with the same seed, the hands of
\* the two games hold different tokens
C26_Witness ==
    /\ last.type = "performThrow"
    /\ gs.seed = trav.twin.seed
    /\ Len(gs.hand) = 1
    /\ Len(trav.twin.hand) = 1
    /\ gs.hand[1] # trav.twin.hand[1]

\* ---- claims about NEW_GAME ----

\* a game as it is before its first throw
FreshGame(state) ==
    /\ state.phase = "THROW"
    /\ state.turn = 1
    /\ state.throwsRemaining = 1
    /\ state.hand = << >>
    /\ state.pieces = [id \in 1..4 |->
                          [id |-> id - 1, state |-> "HOME", position |-> Null]]
    /\ state.stacks = << >>
    /\ state.artifacts = << >>
    /\ state.stickInventory = [i \in 1..4 |-> BASIC_STICK]
    /\ state.specialNodes = NoSpecialNodes
    /\ state.pendingReward = None
    /\ state.pendingStickOffer = None
    /\ state.selectedNodeId = Undefined
    /\ state.selectedTokenIndex = None

\* C27: from any state NEW_GAME yields a state that depends only on the
\* seed argument: phase THROW, turn 1, throwsRemaining 1, empty hand, pieces
\* 0..3 HOME with null position, no stacks, no artifacts, four basic
\* sticks, no pending reward or stick offer, no selection, and the seed
\* normalized from the argument; nothing of the previous game survives.
C27_NewGameResetsEverything ==
    [][ last'.type = "NEW_GAME" =>
          /\ last'.error = "none"
          /\ FreshGame(gs')
          /\ gs'.seed \in {TestSeed} \cup RandomSeeds
          /\ DOMAIN gs' = DOMAIN gs ]_vars

\* NEW_GAME with the seed ' test ' has replaced the game that was started
\* without a seed
C27_Witness ==
    /\ last.type = "NEW_GAME"
    /\ gs.seed = TestSeed
    /\ gs.hand = << >>
    /\ gs.turn = 1

(***************************************************************************)
(* SpecValidate: a move is validated and then executed, as selectMoveTarget *)
(* of hooks/useGameState does.  trav holds the validated target and steps, *)
(* what validateMove returned and, after the move, the branch choice that  *)
(* executeMove was given.                                                  *)
(***************************************************************************)
MaxValidated == 3

NoValidation ==
    [called |-> FALSE, target |-> NoTarget, steps |-> 0,
     result |-> Err("none"), branchChoice |-> Undefined]

\* a game at its start, and one with two pieces stacked on O20
InitValidate ==
    /\ gs \in {SeededGame, StackedOnO20(2)}
    /\ last = InitLast
    /\ trav = NoValidation
    /\ moves = 0
    /\ dispatched = 0

Validated(target, steps, result) ==
    /\ trav' = [NoValidation EXCEPT !.called = TRUE, !.target = target,
                                    !.steps = steps, !.result = result]
    /\ last' = [InitLast EXCEPT
                   !.type = "validateMove",
                   !.error = IF IsError(result) THEN result.error ELSE "none",
                   !.target = target]
    /\ UNCHANGED <<gs, moves, dispatched>>

ValidateMoveCall ==
    /\ ~trav.called
    /\ moves < MaxValidated
    /\ \E target \in TargetInputs, steps \in StepInputs :
         Validated(target, steps, validateMove(gs, target, steps))

\* executeMove with the target and the steps just validated
ExecuteValidatedCall ==
    /\ trav.called
    /\ \E branchChoice \in ChoiceInputs(StartOf(gs, trav.target)) :
         /\ AfterCall(trav.target,
                      executeMove(gs, trav.target, trav.steps, branchChoice),
                      finalPosOf(gs, trav.target, trav.steps, branchChoice))
         /\ trav' = [trav EXCEPT !.called = FALSE,
                                 !.branchChoice = branchChoice]
    /\ UNCHANGED dispatched

NextValidate ==
    \/ ValidateMoveCall
    \/ ExecuteValidatedCall

SpecValidate == InitValidate /\ [][NextValidate]_vars

\* ---- claims about validateMove ----

TwoOptionsOf ==
    [O5 |-> <<"OUTER", "DIAGONAL_A">>, O10 |-> <<"OUTER", "DIAGONAL_B">>,
     C |-> <<"TO_O15", "TO_O20">>]

\* target names a stack of state that stands on O5, O10 or C
StackOnBranchNode(state, target) ==
    /\ target.type = "STACK"
    /\ \E i \in DOMAIN state.stacks :
         /\ state.stacks[i].id = target.stackId
         /\ state.stacks[i].position \in DOMAIN TwoOptionsOf

\* the ids of the pieces a move of target moves
MovedPieces(state, target) ==
    IF target.type = "HOME" THEN {getHomePieces(state)[1].id}
    ELSE UNION {ToSet(state.stacks[i].pieceIds) :
                   i \in {j \in DOMAIN state.stacks :
                             state.stacks[j].id = target.stackId}}

AsksForBranch(result) ==
    IF IsError(result) THEN FALSE ELSE result.needsBranchChoice

\* what validateMove returned for target in state, as C28 says
BranchReported(state, target, result) ==
    /\ AsksForBranch(result) <=> StackOnBranchNode(state, target)
    /\ AsksForBranch(result) =>
         result.availableBranches = TwoOptionsOf[StartOf(state, target)]

\* after is what executeMove made of before, as result announced
MovedAsValidated(before, target, result, after) ==
    /\ result.isFinished <=> result.finalPosition = "FINISHED"
    /\ \A pieceId \in MovedPieces(before, target) :
         IF result.isFinished
         THEN PieceOf(after, pieceId).state = "FINISHED"
         ELSE /\ PieceOf(after, pieceId).state = "ON_BOARD"
              /\ PieceOf(after, pieceId).position = result.finalPosition
              /\ \E i \in DOMAIN after.stacks :
                   /\ after.stacks[i].position = result.finalPosition
                   /\ pieceId \in ToSet(after.stacks[i].pieceIds)

\* C28: validateMove reports needsBranchChoice with exactly the two branch
\* options of the node if and only if the target is a stack standing on O5,
\* O10 or C (never for a HOME target); in every other accepted case its
\* finalPosition and isFinished agree with what executeMove then does with
\* the same target and steps and no branch choice: isFinished exactly when
\* the moved pieces end FINISHED, and otherwise they end on finalPosition.
C28_ValidateAgreesWithExecute ==
    /\ [](trav.called => BranchReported(gs, trav.target, trav.result))
    /\ [][ (/\ trav.called
            /\ ~IsError(trav.result)
            /\ ~AsksForBranch(trav.result)
            /\ trav'.branchChoice = Undefined)
           => /\ last'.type = "executeMove"
              /\ last'.error = "none"
              /\ MovedAsValidated(gs, trav.target, trav.result, gs') ]_vars

\* a stack of two validated to finish has been finished by executeMove
C28_Witness ==
    /\ ~trav.called
    /\ MoveDone
    /\ trav.target.type = "STACK"
    /\ trav.branchChoice = Undefined
    /\ ~IsError(trav.result)
    /\ trav.result.isFinished
    /\ trav.result.finalPosition = "FINISHED"
    /\ getFinishedCount(gs) = 2

\* ---- claims about finishing ----

\* the stack of state that target names
TargetStack(state, target) ==
    state.stacks[CHOOSE i \in DOMAIN state.stacks :
                    state.stacks[i].id = target.stackId]

\* after is before without the stack, whose pieces are FINISHED with null
\* position; nothing else differs
FinishedAsClaimed(before, stack, after) ==
    /\ after.stacks = SelectSeq(before.stacks, LAMBDA s : s # stack)
    /\ Len(after.stacks) = Len(before.stacks) - 1
    /\ \A i \in DOMAIN before.pieces :
         after.pieces[i] =
            IF before.pieces[i].id \in ToSet(stack.pieceIds)
            THEN [id |-> before.pieces[i].id, state |-> "FINISHED",
                  position |-> Null]
            ELSE before.pieces[i]
    /\ DOMAIN after.pieces = DOMAIN before.pieces
    /\ DOMAIN after = DOMAIN before
    /\ \A field \in DOMAIN before \ {"stacks", "pieces"} :
         after[field] = before[field]
    /\ getFinishedCount(after) =
          getFinishedCount(before) + Len(stack.pieceIds)

\* C29: when a move takes a stack past O20 the stack is removed from
\* state.stacks and exactly its pieces become FINISHED with null position;
\* every other stack and piece is unchanged, so the number of FINISHED
\* pieces grows by exactly the size of the finishing stack.
C29_FinishRemovesExactlyTheStack ==
    [][ (/\ last'.type = "executeMove"
         /\ last'.error = "none"
         /\ last'.target.type = "STACK"
         /\ last'.finalPos = "FINISHED")
        => FinishedAsClaimed(gs, TargetStack(gs, last'.target), gs') ]_vars

\* a stack of two has gone past O20: two pieces are FINISHED, two at HOME
C29_Witness ==
    /\ MoveDone
    /\ last.target.type = "STACK"
    /\ last.finalPos = "FINISHED"
    /\ getFinishedCount(gs) = 2
    /\ Len(getHomePieces(gs)) = 2
    /\ gs.stacks = << >>

(***************************************************************************)
(* SpecTargets: games in which every move is made on a target that         *)
(* getValidMoveTargets returned.  trav holds the list it returned for the  *)
(* last move.                                                              *)
(***************************************************************************)
NoTargets == [targets |-> << >>]

\* a game at its start, and one with all four pieces stacked on O20
InitTargets ==
    /\ gs \in {SeededGame, StackedOnO20(4)}
    /\ last = InitLast
    /\ trav = NoTargets
    /\ moves = 0
    /\ dispatched = 0

\* executeMove on one of targets, the list getValidMoveTargets returned
MoveOnOneOf(targets) ==
    /\ trav' = [targets |-> targets]
    /\ \E i \in DOMAIN targets, steps \in StepInputs :
         \E branchChoice \in ChoiceInputs(StartOf(gs, targets[i])) :
           AfterCall(targets[i],
                     executeMove(gs, targets[i], steps, branchChoice),
                     finalPosOf(gs, targets[i], steps, branchChoice))

ValidTargetMoveCall ==
    /\ moves < MaxMoves
    /\ MoveOnOneOf(getValidMoveTargets(gs))
    /\ UNCHANGED dispatched

NextTargets == ValidTargetMoveCall

SpecTargets == InitTargets /\ [][NextTargets]_vars

\* ---- claims about getValidMoveTargets ----

\* targets has a HOME target exactly when a piece of state is at HOME, and
\* besides that exactly one STACK target for each stack of state
TargetsAsClaimed(state, targets) ==
    /\ (\E i \in DOMAIN targets : targets[i].type = "HOME")
          <=> (\E p \in DOMAIN state.pieces : state.pieces[p].state = "HOME")
    /\ Cardinality({i \in DOMAIN targets : targets[i].type = "HOME"}) <= 1
    /\ \A s \in DOMAIN state.stacks :
         Cardinality({i \in DOMAIN targets :
                         /\ targets[i].type = "STACK"
                         /\ targets[i].stackId = state.stacks[s].id}) = 1
    /\ \A i \in DOMAIN targets :
         \/ targets[i].type = "HOME"
         \/ /\ targets[i].type = "STACK"
            /\ \E s \in DOMAIN state.stacks :
                 state.stacks[s].id = targets[i].stackId

\* executeMove takes every target of the list for every number of steps
AllAccepted(state, targets) ==
    \A i \in DOMAIN targets, steps \in 1..5 :
        \A branchChoice \in ChoiceInputs(StartOf(state, targets[i])) :
            ~IsError(executeMove(state, targets[i], steps, branchChoice))

\* C30: getValidMoveTargets returns a HOME target exactly when at least one
\* piece is in HOME state, plus exactly one STACK target per stack on the
\* board; in every reachable state where not all 4 pieces are FINISHED the
\* list is non-empty, and every returned target is accepted by executeMove
\* for every steps in 1..5.
C30_ValidTargetsAreAccepted ==
    /\ TargetsAsClaimed(gs, getValidMoveTargets(gs))
    /\ getFinishedCount(gs) < 4 => Len(getValidMoveTargets(gs)) > 0
    /\ AllAccepted(gs, getValidMoveTargets(gs))
    /\ last.type = "executeMove" => last.error = "none"

\* a move on a returned STACK target has been made while the list held the
\* HOME target and two STACK targets
C30_Witness ==
    /\ MoveDone
    /\ last.target.type = "STACK"
    /\ Len(trav.targets) = 3
    /\ trav.targets[1] = HomeTarget
    /\ Len(getValidMoveTargets(gs)) >= 2

(***************************************************************************)
(* SpecPassing: throws and moves on boards with special nodes, with and    *)
(* without a stick offer pending, and no node event in between.            *)
(***************************************************************************)
MaxPasses == 1

\* the stack of one piece on B4: MO from HOME to O5, GEOL on the diagonal
\* to C, GAE from C towards O20
StackOnB4 ==
    Played(SeededGame,
           SpawnOnO5
           \o ThrowAndMove(GeolToken, StackTarget("stack-1"), "DIAGONAL_A")
           \o ThrowAndMove([result |-> "GAE", steps |-> 2],
                           StackTarget("stack-1"), "TO_O20"))

\* games about to start on the boards of SpecLanding, and the game with
\* the stack on B4 after updateSpecialNodes made O20 a STICK node
PassingStarts ==
    {GameWithNodes(nodes) : nodes \in LandingBoards}
    \cup {updateSpecialNodes(StackOnB4, [nodeId \in {"O20"} |-> "STICK"])}

\* each of them as it is, and after offerStick
InitPassing ==
    /\ gs \in PassingStarts
              \cup {offerStick(state, STICK_POOL[1]) : state \in PassingStarts}
    /\ last = InitLast
    /\ trav = IdleTrav
    /\ moves = 0
    /\ dispatched = 0

PassingMove ==
    /\ ExecuteMoveStep(TargetInputs, MaxPasses)
    /\ UNCHANGED dispatched

NextPassing == LandingThrow \/ PassingMove

SpecPassing == InitPassing /\ [][NextPassing]_vars

\* a move of the stack on B4 can pass over the STICK node O20 and finish
\* while an offer is pending
PassingFinishReached ==
    \E action \in MoveActions(gs) :
        /\ PassesSpecialOnly(gs, action)
        /\ gs.pendingStickOffer # None
        /\ ~IsError(gameReducer(gs, action))
        /\ getFinishedCount(gameReducer(gs, action)) = 1

\* ---- claims about stacks staying together ----

\* the sets of pieces listed together in a stack of state
StackSets(state) ==
    {ToSet(state.stacks[i].pieceIds) : i \in DOMAIN state.stacks}

\* the pieces of the set, all on the board before, are all FINISHED after
\* and in no stack
FinishedTogether(before, pieceSet, after) ==
    /\ \A pieceId \in pieceSet :
         /\ PieceOf(before, pieceId).state = "ON_BOARD"
         /\ PieceOf(after, pieceId).state = "FINISHED"
    /\ \A other \in StackSets(after) : other \cap pieceSet = {}

\* every set of pieces stacked before is part of one stack after, or has
\* finished as a whole
KeptTogether(before, after) ==
    \A pieceSet \in StackSets(before) :
        \/ \E other \in StackSets(after) : pieceSet \subseteq other
        \/ FinishedTogether(before, pieceSet, after)

\* C31: stacks never split: two pieces listed in the same stack are listed
\* in the same stack in every later state until both become FINISHED in
\* the same move; a stack's set of pieces only grows until it finishes.
C31_StacksNeverSplit == [][KeptTogether(gs, gs')]_vars

\* a stack of two pieces has been moved, or made, by the third move of a
\* game and is the only stack on the board
C31_Witness ==
    /\ MoveDone
    /\ last.target.type = "STACK"
    /\ moves >= 3
    /\ Len(gs.stacks) = 1
    /\ Len(gs.stacks[1].pieceIds) = 2
    /\ gs.stacks[1].position = last.finalPos

\* ---- claims about advancing the turn ----

\* advanceTurn throws on a hand with tokens, and otherwise starts the next
\* turn
AdvanceTurnAsClaimed(state) ==
    LET result == advanceTurn(state)
    IN  IF Len(state.hand) > 0
        THEN result = Err("Cannot advance turn: hand is not empty")
        ELSE result = [state EXCEPT !.phase = "THROW",
                                    !.turn = state.turn + 1,
                                    !.throwsRemaining = 1]

\* a step to a later turn keeps the hand, or is the move that used the last
\* token of the hand
NoTokenDiscarded(before, type, after) ==
    after.turn > before.turn =>
        \/ after.hand = before.hand
        \/ /\ type = "EXECUTE_MOVE"
           /\ Len(before.hand) = 1
           /\ after.hand = << >>

\* C32: a turn is never advanced while tokens remain in the hand:
\* advanceTurn throws when the hand is not empty and otherwise sets phase
\* THROW, turn + 1 and throwsRemaining 1, and no action, END_TURN included,
\* moves the game to the next turn by discarding unconsumed tokens.
C32_TurnKeepsUnusedTokens ==
    /\ [](AdvanceTurnAsClaimed(gs))
    /\ [][NoTokenDiscarded(gs, last'.type, gs')]_vars

\* END_TURN has been dispatched on a hand with tokens
C32_Witness ==
    /\ last.type = "END_TURN"
    /\ last.error = "none"
    /\ gs.turn > 1
    /\ gs.hand = << >>
    /\ dispatched >= 2

(***************************************************************************)
(* SpecRolling: the throw button's rolling state machine, useRollingState. *)
(* trav holds the hook: its state isRolling, its refs, the timers armed    *)
(* with window.setTimeout and window.setInterval, the clock Date.now(),    *)
(* and a record of the onCommit and vibrateTick calls since the last       *)
(* pointer down.  moves counts pointer downs, dispatched counts releases.  *)
(***************************************************************************)
MIN_ROLLING_DURATION == 500

MAX_ROLLING_DURATION == 3000

TICK_INTERVAL == 500

\* the clock advances in steps of TimeStep ms up to MaxTime ms
TimeStep == 250

MaxTime == 3500

MaxDowns == 2

MaxReleases == 2

\* the hook after its first render
InitialHook ==
    [isRolling |-> FALSE,
     hasCommitted |-> FALSE,
     rollingStartTime |-> None,
     minTimer |-> None,
     maxTimer |-> None,
     tickInterval |-> None,
     timers |-> {},
     nextId |-> 1,
     now |-> 0,
     mounted |-> TRUE,
     commits |-> 0,
     committedAt |-> None,
     ticks |-> 0]

\* window.setTimeout (every = 0) and window.setInterval: the new timer has
\* id h.nextId
setTimer(h, callback, delay, every) ==
    [h EXCEPT !.timers = @ \cup {[id |-> h.nextId, callback |-> callback,
                                  due |-> h.now + delay, every |-> every]},
              !.nextId = @ + 1]

\* clearTimeout and clearInterval of the id in a ref, if it is not null
clearTimer(h, ref) ==
    IF ref = None THEN h
    ELSE [h EXCEPT !.timers = {t \in @ : t.id # ref[1]}]

\* vibrateTick(); ticks counts the calls made after onCommit
vibrateTick(h) ==
    [h EXCEPT !.ticks = IF h.commits > 0 THEN @ + 1 ELSE @]

commit(h) ==
    IF h.hasCommitted THEN h
    ELSE LET cleared == clearTimer(clearTimer(clearTimer(h, h.minTimer),
                                              h.maxTimer),
                                   h.tickInterval)
         IN  [cleared EXCEPT !.hasCommitted = TRUE,
                             !.isRolling = FALSE,
                             !.minTimer = None,
                             !.maxTimer = None,
                             !.tickInterval = None,
                             !.commits = @ + 1,
                             !.committedAt = Some(h.now)]

handlePointerDown(h) ==
    LET reset == [h EXCEPT !.hasCommitted = FALSE,
                           !.rollingStartTime = Some(h.now),
                           !.isRolling = TRUE,
                           !.commits = 0,
                           !.committedAt = None,
                           !.ticks = 0]
        ticking == [setTimer(vibrateTick(reset), "vibrateTick",
                             TICK_INTERVAL, TICK_INTERVAL)
                       EXCEPT !.tickInterval = Some(reset.nextId)]
        withMin == [setTimer(ticking, "clearMinTimerRef",
                             MIN_ROLLING_DURATION, 0)
                       EXCEPT !.minTimer = Some(ticking.nextId)]
    IN  [setTimer(withMin, "commit", MAX_ROLLING_DURATION, 0)
            EXCEPT !.maxTimer = Some(withMin.nextId)]

\* Date.now() - (rollingStartTimeRef.current || 0)
elapsedOf(h) ==
    h.now - (IF h.rollingStartTime = None THEN 0 ELSE h.rollingStartTime[1])

handlePointerRelease(h) ==
    IF ~h.isRolling \/ h.hasCommitted THEN h
    ELSE IF elapsedOf(h) < MIN_ROLLING_DURATION
         THEN LET cleared == clearTimer(h, h.minTimer)
              IN  [setTimer(cleared, "commit",
                            MIN_ROLLING_DURATION - elapsedOf(h), 0)
                      EXCEPT !.minTimer = Some(cleared.nextId)]
         ELSE commit(h)

\* the callback given to setTimeout or setInterval
runCallback(h, callback) ==
    IF callback = "vibrateTick" THEN vibrateTick(h)
    ELSE IF callback = "clearMinTimerRef" THEN [h EXCEPT !.minTimer = None]
    ELSE commit(h)

\* a timer expires: a timeout is gone, an interval is armed again
expire(h, timer) ==
    LET others == {t \in h.timers : t.id # timer.id}
        rearmed == IF timer.every > 0
                   THEN others \cup {[timer EXCEPT !.due = @ + timer.every]}
                   ELSE others
    IN  runCallback([h EXCEPT !.timers = rearmed], timer.callback)

\* the cleanup of the hook's effect
unmount(h) ==
    [clearTimer(clearTimer(clearTimer(h, h.minTimer), h.maxTimer),
                h.tickInterval)
        EXCEPT !.mounted = FALSE]

\* the timers whose time has come, and the one the browser runs first
DueTimers(h) == {t \in h.timers : t.due <= h.now}

FirstDue(h) ==
    CHOOSE t \in DueTimers(h) :
        \A u \in DueTimers(h) :
            t.due < u.due \/ (t.due = u.due /\ t.id <= u.id)

PointerReleaseEvents == {"pointerup", "pointerleave", "pointercancel"}

InitRolling ==
    /\ gs = SeededGame
    /\ last = InitLast
    /\ trav = InitialHook
    /\ moves = 0
    /\ dispatched = 0

HookStep(name, h) ==
    /\ last' = [InitLast EXCEPT !.type = name]
    /\ trav' = h
    /\ UNCHANGED gs

PointerDown ==
    /\ trav.mounted
    /\ moves < MaxDowns
    /\ HookStep("pointerdown", handlePointerDown(trav))
    /\ moves' = moves + 1
    /\ UNCHANGED dispatched

PointerRelease ==
    /\ trav.mounted
    /\ dispatched < MaxReleases
    /\ \E event \in PointerReleaseEvents :
         HookStep(event, handlePointerRelease(trav))
    /\ dispatched' = dispatched + 1
    /\ UNCHANGED moves

TimerExpires ==
    /\ DueTimers(trav) # {}
    /\ HookStep(FirstDue(trav).callback, expire(trav, FirstDue(trav)))
    /\ UNCHANGED <<moves, dispatched>>

\* time passes once every timer that is due has run
TimePasses ==
    /\ DueTimers(trav) = {}
    /\ trav.now + TimeStep <= MaxTime
    /\ HookStep("time", [trav EXCEPT !.now = @ + TimeStep])
    /\ UNCHANGED <<moves, dispatched>>

Unmount ==
    /\ trav.mounted
    /\ HookStep("unmount", unmount(trav))
    /\ UNCHANGED <<moves, dispatched>>

NextRolling ==
    \/ PointerDown
    \/ PointerRelease
    \/ TimerExpires
    \/ TimePasses
    \/ Unmount

SpecRolling == InitRolling /\ [][NextRolling]_vars

\* ---- claims about the rolling state machine ----

\* the hook is in a rolling session: a pointer down without a commit yet
Rolling(h) == h.mounted /\ h.isRolling /\ ~h.hasCommitted

\* onCommit is called in the step from before to after
Commits(before, after) == after.commits > before.commits

\* a commit comes MIN_ROLLING_DURATION or more after the last pointer down,
\* a release after MIN_ROLLING_DURATION commits at once, and a release
\* outside a session commits nothing
CommitsInTime(before, event, after) ==
    /\ Commits(before, after) =>
         /\ after.commits = 1
         /\ elapsedOf(before) >= MIN_ROLLING_DURATION
    /\ (event \in PointerReleaseEvents /\ Rolling(before)
        /\ elapsedOf(before) >= MIN_ROLLING_DURATION) =>
         Commits(before, after)
    /\ (event \in PointerReleaseEvents /\ ~Rolling(before)) =>
         after = before

\* C33: for every interleaving of pointer down, pointer up, leave and
\* cancel and timer expiries, onCommit is called at most once per rolling
\* session, never earlier than 500 ms after the pointer down that started
\* the session and at the latest 3000 ms after it (a session is over once
\* the 3000 ms timer has run); a release after 500 ms commits at once and
\* a release without a pointer down never commits.
C33_CommitOnceBetweenMinAndMax ==
    /\ [](Rolling(trav) =>
            /\ trav.commits = 0
            /\ elapsedOf(trav) < MAX_ROLLING_DURATION + TimeStep)
    /\ [][trav.mounted => CommitsInTime(trav, last'.type, trav')]_vars

\* onCommit has been called less than 500 ms after the last pointer down
C33_Witness ==
    /\ trav.mounted
    /\ trav.commits = 1
    /\ trav.hasCommitted
    /\ trav.committedAt[1] - trav.rollingStartTime[1] < MIN_ROLLING_DURATION

\* C34: after onCommit has been called, and until the next pointer down,
\* no tick vibration is issued and no timer started during that or an
\* earlier rolling session is still armed, whatever the pointer events
\* were (a second pointer down before the first session committed
\* included).
C34_NothingArmedAfterCommit ==
    (trav.mounted /\ trav.commits > 0) =>
        /\ trav.ticks = 0
        /\ trav.timers = {}

\* a tick vibration has been issued after onCommit, by the interval of an
\* earlier pointer down
C34_Witness ==
    /\ trav.mounted
    /\ trav.commits = 1
    /\ trav.ticks > 0

\* ---- claims about THROW_YUT and the actions it stands for ----

\* ADD_HAND_TOKEN, then DECREMENT_THROWS_REMAINING, then
\* INCREMENT_THROWS_REMAINING if increment
ThrowSequence(state, token, increment) ==
    LET added == gameReducer(state, [type |-> "ADD_HAND_TOKEN",
                                     token |-> token])
        decremented == gameReducer(added,
                                   [type |-> "DECREMENT_THROWS_REMAINING"])
    IN  IF increment
        THEN gameReducer(decremented, [type |-> "INCREMENT_THROWS_REMAINING"])
        ELSE decremented

\* C35: for every state and every token, THROW_YUT yields the same state
\* as ADD_HAND_TOKEN, DECREMENT_THROWS_REMAINING and then
\* INCREMENT_THROWS_REMAINING exactly when the token is YUT or MO (and not
\* the state of the sequence with the increment otherwise).
C35_ThrowYutIsTheSequence ==
    [][last'.type = "THROW_YUT" =>
         /\ last'.error = "none"
         /\ gs' = ThrowSequence(gs, last'.token,
                                last'.token.result \in {"YUT", "MO"})
         /\ gs' # ThrowSequence(gs, last'.token,
                                last'.token.result \notin {"YUT", "MO"})]_vars

\* THROW_YUT has added a MO token with no throw remaining and left one
\* throw, and the hand holds an earlier token
C35_Witness ==
    /\ last.type = "THROW_YUT"
    /\ last.error = "none"
    /\ last.token.result = "MO"
    /\ last.throws = 0
    /\ gs.throwsRemaining = 1
    /\ Len(gs.hand) = 2

\* ---- claims about the life of a piece ----

\* HOME, then ON_BOARD, then FINISHED
PieceStateOrder == <<"HOME", "ON_BOARD", "FINISHED">>

OrderOf(pieceState) ==
    CHOOSE n \in DOMAIN PieceStateOrder : PieceStateOrder[n] = pieceState

\* the nodes one or more edges of BOARD_GRAPH away from the nodes of a set
RECURSIVE ReachableFrom(_)
ReachableFrom(nodes) ==
    LET further == nodes \cup UNION {ToSet(BOARD_GRAPH[n].next) : n \in nodes}
    IN  IF further = nodes THEN nodes ELSE ReachableFrom(further)

NodesAfter(nodeId) == ReachableFrom(ToSet(BOARD_GRAPH[nodeId].next))

\* the lowest id of a HOME piece
LowestHomeId(state) ==
    CHOOSE id \in {p.id : p \in ToSet(getHomePieces(state))} :
        \A p \in ToSet(getHomePieces(state)) : id <= p.id

\* what a step may do to the piece at index i
PieceMovesOn(before, i, after) ==
    LET old == before.pieces[i]
        new == after.pieces[i]
    IN  /\ new.id = old.id
        /\ OrderOf(new.state) >= OrderOf(old.state)
        /\ (old.state = "HOME" /\ new.state # "HOME") =>
             old.id = LowestHomeId(before)
        /\ (old.state = "ON_BOARD" /\ new.state = "ON_BOARD") =>
             \/ new.position = old.position
             \/ new.position \in NodesAfter(old.position)

PiecesMoveOn(before, after) ==
    /\ DOMAIN after.pieces = DOMAIN before.pieces
    /\ \A i \in DOMAIN before.pieces : PieceMovesOn(before, i, after)
    /\ getFinishedCount(after) >= getFinishedCount(before)

\* the actions of the reducer other than NEW_GAME and EXECUTE_MOVE
OtherActions ==
    {[type |-> "SET_PHASE", phase |-> "PLAY"],
     [type |-> "INCREMENT_TURN"],
     [type |-> "END_TURN"],
     [type |-> "SET_SELECTED_NODE", nodeId |-> "O1"],
     [type |-> "SET_SELECTED_TOKEN", tokenIndex |-> Some(0)],
     [type |-> "REMOVE_HAND_TOKEN", index |-> 0],
     [type |-> "SET_THROWS_REMAINING", count |-> 0],
     [type |-> "DECREMENT_THROWS_REMAINING"],
     [type |-> "INCREMENT_THROWS_REMAINING"]}
    \cup {[type |-> "ADD_HAND_TOKEN", token |-> token] : token \in HandTokens}
    \cup {[type |-> "THROW_YUT", token |-> token] : token \in HandTokens}

\* C36: along every sequence of moves a piece's state only goes from HOME
\* to ON_BOARD to FINISHED: no action other than NEW_GAME returns a piece
\* to an earlier state, the number of FINISHED pieces never decreases, a
\* HOME spawn takes the HOME piece with the lowest id, and an ON_BOARD
\* piece only moves to a node reachable from its node along board edges.
C36_PiecesOnlyMoveOn ==
    /\ [](\A action \in OtherActions :
              gameReducer(gs, action).pieces = gs.pieces)
    /\ [][PiecesMoveOn(gs, gs')]_vars

\* a second piece has been spawned, piece 1, after piece 0 and behind it
C36_Witness ==
    /\ MoveDone
    /\ last.target.type = "HOME"
    /\ PieceOf(gs, 0).state = "ON_BOARD"
    /\ PieceOf(gs, 1).state = "ON_BOARD"
    /\ PieceOf(gs, 1).position = last.finalPos
    /\ PieceOf(gs, 0).position \in NodesAfter(last.finalPos)
    /\ PieceOf(gs, 2).state = "HOME"

(***************************************************************************)
(* SpecTurns: a game played the way the screen lets it be played: the      *)
(* throw button while throwsRemaining is not 0, the start of the move      *)
(* phase once no throw is left and the hand holds a token, and in PLAY a   *)
(* token of the hand on a target of getValidMoveTargets.  trav holds the   *)
(* tokens thrown in the turn.                                              *)
(***************************************************************************)
MaxTurnMoves == 2

MaxThrown == 2

NoneThrown == [thrown |-> << >>]

\* the start of a game, and one piece at HOME with three stacked on O20
InitTurns ==
    /\ gs \in {SeededGame, StackedOnO20(3)}
    /\ last = InitLast
    /\ trav = NoneThrown
    /\ moves = 0
    /\ dispatched = 0

\* the Throw button (disabled when throwsRemaining is 0) and performThrow;
\* a hand of MaxThrown - 1 tokens gets no further bonus throw
TurnThrow ==
    /\ gs.phase = "THROW"
    /\ gs.throwsRemaining > 0
    /\ \E token \in HandTokens :
         /\ GrantsBonus(token) => Len(gs.hand) + 1 < MaxThrown
         /\ gs' = gameReducer(gs, [type |-> "THROW_YUT", token |-> token])
         /\ last' = [InitLast EXCEPT !.type = "THROW_YUT",
                                     !.token = token,
                                     !.throws = gs.throwsRemaining]
         /\ trav' = [thrown |-> Append(trav.thrown, token)]
    /\ UNCHANGED <<moves, dispatched>>

\* the Start Move button (canStartMove) and startMovePhase
TurnStartMove ==
    /\ gs.phase = "THROW"
    /\ gs.throwsRemaining = 0
    /\ Len(gs.hand) > 0
    /\ gs' = gameReducer(gs, [type |-> "SET_PHASE", phase |-> "PLAY"])
    /\ last' = [InitLast EXCEPT !.type = "SET_PHASE"]
    /\ UNCHANGED <<trav, moves, dispatched>>

\* useReducer keeps the state EXECUTE_MOVE returned
TurnMoved(result, limit) ==
    /\ IF IsError(result) THEN TRUE ELSE moves < limit
    /\ gs' = IF IsError(result) THEN gs ELSE result
    /\ last' = [InitLast EXCEPT
                   !.type = "EXECUTE_MOVE",
                   !.error = IF IsError(result) THEN result.error ELSE "none"]
    /\ moves' = IF IsError(result) THEN moves ELSE moves + 1

\* EXECUTE_MOVE with a token of the hand on a valid target, while the game
\* has had fewer than limit moves; the turn's throws are forgotten when the
\* turn ends
TurnMoveStep(limit) ==
    /\ gs.phase = "PLAY"
    /\ \E i \in DOMAIN gs.hand, t \in DOMAIN getValidMoveTargets(gs) :
         \E branchChoice \in
               ChoiceInputs(StartOf(gs, getValidMoveTargets(gs)[t])) :
           TurnMoved(gameReducer(gs,
                            [type |-> "EXECUTE_MOVE",
                             tokenIndex |-> i - 1,
                             target |-> getValidMoveTargets(gs)[t],
                             branchChoice |-> branchChoice]),
                        limit)
    /\ trav' = IF gs'.turn = gs.turn THEN trav ELSE NoneThrown

TurnMove ==
    /\ TurnMoveStep(MaxTurnMoves)
    /\ UNCHANGED dispatched

NextTurns ==
    \/ TurnThrow
    \/ TurnStartMove
    \/ TurnMove

SpecTurns == InitTurns /\ [][NextTurns]_vars

\* ---- claims about throws in a guarded game ----

\* zero or more YUT or MO tokens, then one token that grants no bonus
BonusThenOne(tokens) ==
    /\ Len(tokens) > 0
    /\ ~GrantsBonus(tokens[Len(tokens)])
    /\ tokens[Len(tokens)].result \in {"DO", "GAE", "GEOL"}
    /\ \A i \in 1..(Len(tokens) - 1) : GrantsBonus(tokens[i])

\* C37: when THROW_YUT is dispatched only in the THROW phase while
\* throwsRemaining > 0, throwsRemaining is 0 or 1 in every reachable state,
\* and at the moment it reaches 0 the tokens added in the turn are zero or
\* more YUT or MO tokens followed by exactly one DO, GAE or GEOL token.
C37_ThrowsLeftAndTokensOfTheTurn ==
    /\ [](gs.throwsRemaining \in {0, 1})
    /\ [][(gs.throwsRemaining > 0 /\ gs'.throwsRemaining = 0) =>
            /\ last'.type = "THROW_YUT"
            /\ BonusThenOne(trav'.thrown)
            /\ gs'.hand = trav'.thrown]_vars

\* throwsRemaining has reached 0 in the second turn after a YUT or MO
\* throw and another throw
C37_Witness ==
    /\ last.type = "THROW_YUT"
    /\ gs.throwsRemaining = 0
    /\ gs.turn > 1
    /\ Len(trav.thrown) = 2
    /\ GrantsBonus(trav.thrown[1])

(***************************************************************************)
(* SpecFinish: the guarded game of SpecTurns played to its end, from one   *)
(* piece at HOME and three stacked on O20.  The moves are not capped: the  *)
(* game itself bounds them.                                                *)
(***************************************************************************)
FinishStart == StackedOnO20(3)

InitFinish ==
    /\ gs = FinishStart
    /\ last = InitLast
    /\ trav = NoneThrown
    /\ moves = 0
    /\ dispatched = 0

Longest(lengths) == CHOOSE w \in lengths : \A v \in lengths : v <= w

\* the number of edges of the longest way from a node to the last node
RECURSIVE LongestWay(_)
LongestWay(nodeId) ==
    IF BOARD_GRAPH[nodeId].next = << >> THEN 0
    ELSE 1 + Longest({LongestWay(n) : n \in ToSet(BOARD_GRAPH[nodeId].next)})

WayLengths == [nodeId \in NodeIds |-> LongestWay(nodeId)]

\* the most moves a piece can still make: one per edge ahead and one to
\* leave the board
MovesAhead(piece) ==
    IF piece.state = "FINISHED" THEN 0
    ELSE IF piece.state = "HOME" THEN WayLengths["O0"] + 1
    ELSE WayLengths[piece.position] + 1

RECURSIVE SumMovesAhead(_)
SumMovesAhead(pieces) ==
    IF pieces = << >> THEN 0
    ELSE MovesAhead(Head(pieces)) + SumMovesAhead(Tail(pieces))

\* any number of moves fits below this
LongestGame == SumMovesAhead(SeededGame.pieces) + 1

FinishMove ==
    /\ TurnMoveStep(LongestGame)
    /\ UNCHANGED dispatched

NextFinish ==
    \/ TurnThrow
    \/ TurnStartMove
    \/ FinishMove

SpecFinish == InitFinish /\ [][NextFinish]_vars

\* ---- claims about the end of a guarded game ----

\* no node of the board is reached again by following edges from it
BoardHasNoCycle == \A n \in NodeIds : n \notin NodesAfter(n)

\* a move brings the pieces at least one move closer to the end, and no
\* other step takes them further from it
MovesAdvance(before, type, after) ==
    IF type = "EXECUTE_MOVE"
    THEN SumMovesAhead(after.pieces) < SumMovesAhead(before.pieces)
    ELSE after.pieces = before.pieces

\* the Throw button or the Start Move button is enabled, or in PLAY the
\* reducer accepts a token of the hand on a valid target
CanAct(state) ==
    \/ state.phase = "THROW" /\ state.throwsRemaining > 0
    \/ state.phase = "THROW" /\ state.throwsRemaining = 0
                             /\ Len(state.hand) > 0
    \/ /\ state.phase = "PLAY"
       /\ \E i \in DOMAIN state.hand,
             t \in DOMAIN getValidMoveTargets(state) :
             ~IsError(gameReducer(state,
                          [type |-> "EXECUTE_MOVE",
                           tokenIndex |-> i - 1,
                           target |-> getValidMoveTargets(state)[t],
                           branchChoice |-> Undefined]))

\* C38: the board graph has no cycle and every move advances a stack by at
\* least one edge, so a game played with the guarded action sequence
\* (throw while throwsRemaining > 0, start move, play every token on some
\* valid target) reaches GAME_OVER after a bounded number of moves, given
\* that a throw without bonus comes in each turn; no reachable state
\* before GAME_OVER is without an enabled action.  As a bound: the moves
\* made and the moves the pieces can still make never add up to more than
\* the moves the pieces could make at the start, every move lowers what
\* can still be made, nothing is left to make exactly at GAME_OVER, and
\* before GAME_OVER some action is enabled.
C38_GuardedGameEnds ==
    /\ [](BoardHasNoCycle)
    /\ [](moves + SumMovesAhead(gs.pieces)
             <= SumMovesAhead(FinishStart.pieces))
    /\ [](IF gs.phase = "GAME_OVER" THEN SumMovesAhead(gs.pieces) = 0
          ELSE SumMovesAhead(gs.pieces) > 0 /\ CanAct(gs))
    /\ [][MovesAdvance(gs, last'.type, gs')]_vars

\* the game is over after the fourth piece went round the board on its own
C38_Witness ==
    /\ gs.phase = "GAME_OVER"
    /\ isGameOver(gs)
    /\ last.type = "EXECUTE_MOVE"
    /\ moves > 3

\* ---- claims about the pending reward ----

\* a step that changes artifacts is a completed reward that appends one
\* candidate of the reward that was pending
ArtifactsGrowByReward(before, name, after) ==
    after.artifacts # before.artifacts =>
        /\ name = "completeReward"
        /\ before.pendingReward # None
        /\ Len(after.artifacts) = Len(before.artifacts) + 1
        /\ SubSeq(after.artifacts, 1, Len(before.artifacts)) = before.artifacts
        /\ Includes(before.pendingReward[1].candidates,
                    after.artifacts[Len(after.artifacts)])

\* C39: pendingReward is non-null exactly while the phase is REWARD, the
\* artifacts list grows only through completeReward and by one entry per
\* completed reward, and every artifact added is one of the candidates of
\* the reward that was pending when it was chosen.
C39_RewardPendingExactlyInReward ==
    /\ []((gs.pendingReward # None) <=> (gs.phase = "REWARD"))
    /\ [][ArtifactsGrowByReward(gs, last'.type, gs')]_vars

\* END_TURN has left the REWARD phase with the reward still pending
C39_Witness ==
    /\ last.type = "END_TURN"
    /\ last.error = "none"
    /\ gs.phase = "THROW"
    /\ gs.pendingReward # None

\* ---- claims about moves through the center ----

\* the node a traversal is on after k of its steps
NodeAfter(call, k) == traverseSteps(call.start, k, call.branchChoice)

\* the way on from C towards O15, then along the outer ring
AfterCenter == <<"A3", "A4", "O15", "O16", "O17">>

\* a traversal that is on C after k steps, with steps to go, takes the
\* rest of its steps along AfterCenter
LeavesCenterToO15(call, k) ==
    (k < call.steps /\ NodeAfter(call, k) = "C") =>
        \A j \in 1..(call.steps - k) : NodeAfter(call, k + j) = AfterCenter[j]

\* a traversal that comes to B3 started on C
OnlyFromCenterToB3(call) ==
    (\E k \in 1..call.steps : NodeAfter(call, k) = "B3") =>
        /\ call.start = "C"
        /\ call.branchChoice = "TO_O20"

\* C40: a move that enters the center C as a non-final step (from A1, A2,
\* B1 or B2, or from O5 or O10 with the diagonal chosen, with steps enough
\* to pass C) leaves C through A3 towards O15, whatever diagonal it came
\* from and whatever the branch choice argument is; only a move that
\* starts on C can go to B3.
C40_ThroughCenterTowardsO15 ==
    TraverseDone =>
        /\ \A k \in 1..trav.steps : LeavesCenterToO15(trav, k)
        /\ OnlyFromCenterToB3(trav)
        /\ trav.result = NodeAfter(trav, trav.steps)

\* three steps from A1 with the choice TO_O20 have passed C and ended on A3
C40_Witness ==
    /\ TraverseDone
    /\ trav.start = "A1"
    /\ trav.steps = 3
    /\ trav.branchChoice = "TO_O20"
    /\ trav.result = "A3"

====
